---- MODULE Spec2Model ----
(***************************************************************************)
(* The Structured Text (ST) processor of PLCopen_2_Mermaid:                *)
(* STProcessor.process_code cleans an ST source text, parses it into a     *)
(* list of statement records and builds a Mermaid flowchart from them.     *)
(*                                                                         *)
(* TEXT.  An ST text is a sequence of tokens.  A token is a word (a        *)
(* maximal run of non-blank characters), NL (one line break) or SP (a run  *)
(* of blanks or tabs that is more than the single blank between two        *)
(* words: an indentation, a double blank).  Two adjacent words are         *)
(* separated by exactly one blank.  The regular expressions and the string *)
(* methods of the source are modelled by what they do to such a sequence;  *)
(* what they do inside a word is given, for the words of the alphabet      *)
(* below, by the word tables (EndsIF, KeywordPrefix, DropSemi, ...).       *)
(* Every word of the alphabet is balanced in () and [] but the comment     *)
(* brackets "(*" and "*)", which hold no other character.                  *)
(***************************************************************************)
EXTENDS Integers, Sequences, FiniteSets, TLC

NL == "\n"
SP == "  "

IsBlank(tok) == tok \in {NL, SP}

(* The first index from `from` on, and the last index, at which P holds;   *)
(* 0 when there is none.                                                   *)
RECURSIVE FirstTrue(_, _)
FirstTrue(bs, from) ==
    IF from > Len(bs) THEN 0
    ELSE IF bs[from] THEN from
    ELSE FirstTrue(bs, from + 1)

RECURSIVE LastTrue(_, _)
LastTrue(bs, upto) ==
    IF upto < 1 THEN 0
    ELSE IF bs[upto] THEN upto
    ELSE LastTrue(bs, upto - 1)

IsWord(tok) == ~IsBlank(tok)
IsNL(tok) == tok = NL

(* The places of a text that hold a word, and those that hold a newline. *)
Words(t) == [j \in 1..Len(t) |-> IsWord(t[j])]
Newlines(t) == [j \in 1..Len(t) |-> IsNL(t[j])]

RECURSIVE Flatten(_)
Flatten(ss) == IF ss = <<>> THEN <<>> ELSE Head(ss) \o Flatten(Tail(ss))

(* str.strip(): the text without its leading and trailing blanks. *)
Strip(t) ==
    LET a == FirstTrue(Words(t), 1)
    IN  IF a = 0 THEN <<>> ELSE SubSeq(t, a, LastTrue(Words(t), Len(t)))

(* str.split('\n'): the lines of a text, empty lines included. *)
RECURSIVE SplitLines(_)
SplitLines(t) ==
    LET b == FirstTrue(Newlines(t), 1)
    IN  IF b = 0 THEN <<t>>
        ELSE <<SubSeq(t, 1, b - 1)>> \o SplitLines(SubSeq(t, b + 1, Len(t)))

(* '\n'.join(lines) *)
RECURSIVE JoinLines(_)
JoinLines(ls) ==
    IF ls = <<>> THEN <<>>
    ELSE IF Len(ls) = 1 THEN ls[1]
    ELSE ls[1] \o <<NL>> \o JoinLines(Tail(ls))

(***************************************************************************)
(* Word tables: what the source's character-level tests answer for the     *)
(* words of the alphabet (all tests of the source ignore case; the         *)
(* alphabet is written in upper case).                                     *)
(***************************************************************************)

(* .replace('&gt;','>').replace('&lt;','<').replace('&amp;','&') on a word *)
DecodeWord(w) ==
    CASE w = "x&gt;0" -> "x>0"
      [] w = "a&amp;&lt;b" -> "a&<b"
      [] OTHER -> w

(* the word ends with "IF" / "CASE" *)
EndsIF(w) == w \in {"IF", "ELSIF", "END_IF", "tDIF"}
EndsCASE(w) == w \in {"CASE", "END_CASE"}
(* the characters of a word before the "IF" / "CASE" it ends with *)
KeywordPrefix(w) ==
    CASE w \in {"END_IF", "END_CASE"} -> <<"END_">>
      [] w = "ELSIF" -> <<"ELS">>
      [] w = "tDIF" -> <<"tD">>
      [] OTHER -> <<>>
StartsTHEN(w) == w = "THEN"
StartsOF(w) == w = "OF"
HasELSE(w) == w = "ELSE"
HasEND_IF(w) == w = "END_IF"
HasEND_CASE(w) == w = "END_CASE"
HasColon(w) ==
    w \in {"1:", "2:", "y:=1;", "y:=1", "T:=SEL(c,a,b);", "T:=SEL(c,a,b)",
           "T:=SEL(c,a);", "T:=SEL(c,a)", "s:='a;b';", "s:='a;b'", "s:='a",
           "T:=SEL(c,a,F(b));", "T:=SEL(c,a,F(b))", "T:=SEL(c,a,b,d);", "T:=SEL(c,a,b,d)",
           "m[1;2]:=0;", "m[1;2]:=0", ":="}
BeforeColon(w) ==
    CASE w = "1:" -> <<"1">>
      [] w = "2:" -> <<"2">>
      [] w \in {"y:=1;", "y:=1"} -> <<"y">>
      [] w \in {"s:='a;b';", "s:='a;b'", "s:='a"} -> <<"s">>
      [] w \in {"T:=SEL(c,a,b);", "T:=SEL(c,a,b)", "T:=SEL(c,a);", "T:=SEL(c,a)"} -> <<"T">>
      [] w \in {"T:=SEL(c,a,F(b));", "T:=SEL(c,a,F(b))", "T:=SEL(c,a,b,d);",
                "T:=SEL(c,a,b,d)"} -> <<"T">>
      [] w \in {"m[1;2]:=0;", "m[1;2]:=0"} -> <<"m[1;2]">>
      [] w = ":=" -> <<>>
      [] OTHER -> <<w>>
AfterColon(w) ==
    CASE w \in {"1:", "2:"} -> <<>>
      [] w = "y:=1;" -> <<"=1;">>
      [] w = "y:=1" -> <<"=1">>
      [] w = "T:=SEL(c,a,b);" -> <<"=SEL(c,a,b);">>
      [] w = "T:=SEL(c,a,b)" -> <<"=SEL(c,a,b)">>
      [] w = "T:=SEL(c,a);" -> <<"=SEL(c,a);">>
      [] w = "T:=SEL(c,a)" -> <<"=SEL(c,a)">>
      [] w = "s:='a;b';" -> <<"='a;b';">>
      [] w = "s:='a;b'" -> <<"='a;b'">>
      [] w = "s:='a" -> <<"='a">>
      [] w = "T:=SEL(c,a,F(b));" -> <<"=SEL(c,a,F(b));">>
      [] w = "T:=SEL(c,a,F(b))" -> <<"=SEL(c,a,F(b))">>
      [] w = "T:=SEL(c,a,b,d);" -> <<"=SEL(c,a,b,d);">>
      [] w = "T:=SEL(c,a,b,d)" -> <<"=SEL(c,a,b,d)">>
      [] w = "m[1;2]:=0;" -> <<"=0;">>
      [] w = "m[1;2]:=0" -> <<"=0">>
      [] w = ":=" -> <<"=">>
      [] OTHER -> <<>>
(* the word has a `;` outside () and []: a string literal is no shelter *)
HasOuterSemi(w) ==
    w \in {"y:=1;", "A();", "B();", "T:=SEL(c,a,b);", "T:=SEL(c,a);", "=1;",
           "=SEL(c,a,b);", "=SEL(c,a);", "s:='a;b';", "s:='a;b'", "='a;b';", "='a;b'",
           "b';", "T:=SEL(c,a,F(b));", "=SEL(c,a,F(b));", "T:=SEL(c,a,b,d);",
           "=SEL(c,a,b,d);", "F(a;b);", "m[1;2]:=0;", "=0;", "1;", "END_REPEAT;"}
(* the word up to its first outer `;`, and what follows that `;` *)
BeforeSemi(w) ==
    CASE w = "y:=1;" -> "y:=1"
      [] w = "A();" -> "A()"
      [] w = "B();" -> "B()"
      [] w = "T:=SEL(c,a,b);" -> "T:=SEL(c,a,b)"
      [] w = "T:=SEL(c,a);" -> "T:=SEL(c,a)"
      [] w = "=1;" -> "=1"
      [] w = "=SEL(c,a,b);" -> "=SEL(c,a,b)"
      [] w = "=SEL(c,a);" -> "=SEL(c,a)"
      [] w \in {"s:='a;b';", "s:='a;b'"} -> "s:='a"
      [] w \in {"='a;b';", "='a;b'"} -> "='a"
      [] w = "b';" -> "b'"
      [] w = "T:=SEL(c,a,F(b));" -> "T:=SEL(c,a,F(b))"
      [] w = "=SEL(c,a,F(b));" -> "=SEL(c,a,F(b))"
      [] w = "T:=SEL(c,a,b,d);" -> "T:=SEL(c,a,b,d)"
      [] w = "=SEL(c,a,b,d);" -> "=SEL(c,a,b,d)"
      [] w = "F(a;b);" -> "F(a;b)"
      [] w = "m[1;2]:=0;" -> "m[1;2]:=0"
      [] w = "=0;" -> "=0"
      [] w = "1;" -> "1"
      [] w = "END_REPEAT;" -> "END_REPEAT"
      [] OTHER -> w
AfterSemi(w) ==
    CASE w \in {"s:='a;b';", "='a;b';"} -> <<"b';">>
      [] w \in {"s:='a;b'", "='a;b'"} -> <<"b'">>
      [] OTHER -> <<>>
(* what the word adds to paren_level: its `(` less its `)` *)
ParenDelta(w) ==
    CASE w = "(*" -> 1
      [] w = "*)" -> -1
      [] OTHER -> 0
(* .rstrip(';') on a word *)
DropSemi(w) ==
    CASE w = "y:=1;" -> "y:=1"
      [] w = "A();" -> "A()"
      [] w = "B();" -> "B()"
      [] w = "T:=SEL(c,a,b);" -> "T:=SEL(c,a,b)"
      [] w = "T:=SEL(c,a);" -> "T:=SEL(c,a)"
      [] w = "=1;" -> "=1"
      [] w = "=SEL(c,a,b);" -> "=SEL(c,a,b)"
      [] w = "=SEL(c,a);" -> "=SEL(c,a)"
      [] w = "s:='a;b';" -> "s:='a;b'"
      [] w = "='a;b';" -> "='a;b'"
      [] w = "b';" -> "b'"
      [] w = "T:=SEL(c,a,F(b));" -> "T:=SEL(c,a,F(b))"
      [] w = "=SEL(c,a,F(b));" -> "=SEL(c,a,F(b))"
      [] w = "T:=SEL(c,a,b,d);" -> "T:=SEL(c,a,b,d)"
      [] w = "=SEL(c,a,b,d);" -> "=SEL(c,a,b,d)"
      [] w = "F(a;b);" -> "F(a;b)"
      [] w = "m[1;2]:=0;" -> "m[1;2]:=0"
      [] w = "=0;" -> "=0"
      [] w = "1;" -> "1"
      [] w = "END_REPEAT;" -> "END_REPEAT"
      [] OTHER -> w
HasAssign(w) ==
    w \in {"y:=1;", "y:=1", "T:=SEL(c,a,b);", "T:=SEL(c,a,b)", "T:=SEL(c,a);", "T:=SEL(c,a)",
           "s:='a;b';", "s:='a;b'", "s:='a",
           "T:=SEL(c,a,F(b));", "T:=SEL(c,a,F(b))", "T:=SEL(c,a,b,d);", "T:=SEL(c,a,b,d)",
           "m[1;2]:=0;", "m[1;2]:=0", ":="}
HasSelCall(w) ==
    w \in {"T:=SEL(c,a,b);", "T:=SEL(c,a,b)", "T:=SEL(c,a);", "T:=SEL(c,a)",
           "=SEL(c,a,b);", "=SEL(c,a,b)", "=SEL(c,a);", "=SEL(c,a)",
           "T:=SEL(c,a,F(b));", "T:=SEL(c,a,F(b))", "T:=SEL(c,a,b,d);", "T:=SEL(c,a,b,d)",
           "=SEL(c,a,F(b));", "=SEL(c,a,F(b))", "=SEL(c,a,b,d);", "=SEL(c,a,b,d)"}
(* the word starts with identifier( / ends with ) *)
StartsCall(w) == w \in {"A()", "B()", "A();", "B();", "F(a;b)", "F(a;b);"}
EndsParen(w) ==
    w \in {"A()", "B()", "T:=SEL(c,a,b)", "T:=SEL(c,a)", "=SEL(c,a,b)", "=SEL(c,a)",
           "T:=SEL(c,a,F(b))", "=SEL(c,a,F(b))", "T:=SEL(c,a,b,d)", "=SEL(c,a,b,d)",
           "F(a;b)", "*)"}
EndsFOR(w) == w \in {"FOR", "END_FOR"}
EndsWHILE(w) == w \in {"WHILE", "END_WHILE"}
EndsREPEAT(w) == w \in {"REPEAT", "END_REPEAT"}
HasEND_FOR(w) == w = "END_FOR"
StartsEndMarker(w) == w \in {"END_IF", "END_CASE", "END_FOR"}


(***************************************************************************)
(* Statement records.  The source's dictionaries carry 'type' and          *)
(* 'content'; an IF parsed by _parse_nested_structures also carries        *)
(* 'then_statements' and 'else_statements' (parsed = TRUE stands for       *)
(* `'then_statements' in stmt`), a CASE_BRANCH 'condition' and 'action'.   *)
(* 'raw', 'then_block' and 'else_block' are never read and are left out.   *)
(***************************************************************************)
Stmt(type, content) ==
    [type |-> type, content |-> content, parsed |-> FALSE,
     then_statements |-> <<>>, else_statements |-> <<>>,
     condition |-> <<>>, action |-> <<>>]

IfStmt(condition, then_statements, else_statements) ==
    [type |-> "IF", content |-> condition, parsed |-> TRUE,
     then_statements |-> then_statements, else_statements |-> else_statements,
     condition |-> <<>>, action |-> <<>>]

(* content is the f-string "{condition}: {action}", its colon a token. *)
BranchStmt(content, condition, action) ==
    [type |-> "CASE_BRANCH", content |-> content, parsed |-> FALSE,
     then_statements |-> <<>>, else_statements |-> <<>>,
     condition |-> condition, action |-> action]

(* _clean_st_code: entities decoded, lines stripped, blank runs collapsed, *)
(* empty lines dropped.                                                    *)
CleanLine(line) == SelectSeq(line, LAMBDA tok : tok # SP)

_clean_st_code(st_code) ==
    LET decoded == [i \in 1..Len(st_code) |-> DecodeWord(st_code[i])]
        lines == SplitLines(decoded)
        cleaned == [i \in 1..Len(lines) |-> CleanLine(lines[i])]
    IN  JoinLines(SelectSeq(cleaned, LAMBDA l : l # <<>>))

(* _classify_statement *)
_classify_statement(statement) ==
    LET s == Strip(statement)
        first == IF s = <<>> THEN "" ELSE s[1]
        KeywordThenBlank(kw) == first = kw /\ Len(s) >= 2
    IN  IF KeywordThenBlank("IF") THEN Stmt("IF", statement)
        ELSE IF KeywordThenBlank("CASE") THEN Stmt("CASE", statement)
        ELSE IF KeywordThenBlank("FOR") THEN Stmt("FOR", statement)
        ELSE IF KeywordThenBlank("WHILE") THEN Stmt("WHILE", statement)
        ELSE IF KeywordThenBlank("REPEAT") THEN Stmt("REPEAT", statement)
        ELSE IF StartsEndMarker(first) THEN Stmt("END_CONTROL", statement)
        ELSE IF (\E i \in 1..Len(s) : HasSelCall(s[i])) /\ (\E i \in 1..Len(s) : HasAssign(s[i]))
             THEN Stmt("SEL_DECISION", statement)
        ELSE IF s # <<>> /\ StartsCall(s[1]) /\ EndsParen(s[Len(s)])
             THEN Stmt("FUNCTION_CALL", statement)
        ELSE IF \E i \in 1..Len(s) : HasAssign(s[i]) THEN Stmt("ASSIGNMENT", statement)
        ELSE Stmt("STATEMENT", statement)

(* _find_outer_semicolon: the place of the first `;` met with paren_level  *)
(* and bracket_level both zero, as the index of the word that holds it; -1 *)
(* when there is none.  The levels are counted from the start of `text`;   *)
(* no word of the alphabet changes bracket_level, and the words with a `;` *)
(* between their own parentheses are not met below level zero.             *)
RECURSIVE OuterSemiFrom(_, _, _)
OuterSemiFrom(text, j, paren_level) ==
    IF j > Len(text) THEN -1
    ELSE IF HasOuterSemi(text[j]) /\ paren_level = 0 THEN j
    ELSE OuterSemiFrom(text, j + 1, paren_level + ParenDelta(text[j]))

_find_outer_semicolon(text) == OuterSemiFrom(text, 1, 0)

(* the inner loop of _parse_simple_statements: `while ';' in current` *)
RECURSIVE TakeStatements(_, _)
TakeStatements(current_statement, statements) ==
    LET semicolon_pos == _find_outer_semicolon(current_statement)
    IN  IF semicolon_pos = -1 THEN [current |-> current_statement, out |-> statements]
        ELSE LET statement_text ==
                     SubSeq(current_statement, 1, semicolon_pos - 1)
                         \o <<BeforeSemi(current_statement[semicolon_pos])>>
             IN  TakeStatements(
                     AfterSemi(current_statement[semicolon_pos])
                         \o SubSeq(current_statement, semicolon_pos + 1, Len(current_statement)),
                     Append(statements, _classify_statement(statement_text)))

(* any(keyword in current.upper() for keyword in                           *)
(*     ['IF ', 'FOR ', 'WHILE ', 'REPEAT ', 'END_IF', 'END_FOR'])          *)
HasControlKeyword(cur) ==
    \/ \E i \in 1..Len(cur) - 1 :
           EndsIF(cur[i]) \/ EndsFOR(cur[i]) \/ EndsWHILE(cur[i]) \/ EndsREPEAT(cur[i])
    \/ \E i \in 1..Len(cur) : HasEND_IF(cur[i]) \/ HasEND_FOR(cur[i])

RECURSIVE SimpleLines(_, _, _)
SimpleLines(lines, current_statement, statements) ==
    IF lines = <<>>
    THEN IF current_statement # <<>>
         THEN Append(statements, _classify_statement(current_statement))
         ELSE statements
    ELSE LET line == Strip(lines[1])
         IN  IF line = <<>> THEN SimpleLines(Tail(lines), current_statement, statements)
             ELSE LET r == TakeStatements(current_statement \o line, statements)
                  IN  IF r.current # <<>> /\ HasControlKeyword(r.current)
                      THEN SimpleLines(Tail(lines), <<>>,
                                       Append(r.out, _classify_statement(r.current)))
                      ELSE SimpleLines(Tail(lines), r.current, r.out)

_parse_simple_statements(st_code) == SimpleLines(SplitLines(st_code), <<>>, <<>>)

(* _parse_case_branches *)
CaseBranchOf(line) ==
    LET j == FirstTrue([k \in 1..Len(line) |-> HasColon(line[k])], 1)
    IN  IF j # 0
        THEN LET condition == SubSeq(line, 1, j - 1) \o BeforeColon(line[j])
                 rest == AfterColon(line[j]) \o SubSeq(line, j + 1, Len(line))
                 action == IF rest = <<>> THEN <<>>
                           ELSE SubSeq(rest, 1, Len(rest) - 1) \o <<DropSemi(rest[Len(rest)])>>
                 \* f"{condition}: {action}"
                 content == IF condition = <<>> THEN <<":">> \o action
                            ELSE SubSeq(condition, 1, Len(condition) - 1)
                                     \o <<condition[Len(condition)] \o ":">> \o action
             IN  BranchStmt(content, condition, action)
        ELSE BranchStmt(line, line, <<"NA">>)

RECURSIVE BranchLines(_)
BranchLines(lines) ==
    IF lines = <<>> THEN <<>>
    ELSE LET line == Strip(lines[1])
         IN  IF line = <<>> THEN BranchLines(Tail(lines))
             ELSE <<CaseBranchOf(line)>> \o BranchLines(Tail(lines))

_parse_case_branches(case_content) == BranchLines(SplitLines(case_content))

(***************************************************************************)
(* The regular expressions of the control-structure recognizer.  All are   *)
(* used with re.IGNORECASE | re.DOTALL, their `.*?` are lazy, and nothing  *)
(* anchors a keyword at a word boundary: `IF\s+` matches the end of any    *)
(* word that ends with IF and is followed by a blank (IF, ELSIF, END_IF).  *)
(* In a cleaned text two words are one blank apart, so `IF\s+.*?\s+THEN`   *)
(* needs at least one word between the two keywords.                       *)
(***************************************************************************)
NoMatch == [found |-> FALSE]

\* The keywords of the two patterns: open is IF or CASE.
EndsOpen(open, w) == IF open = "IF" THEN EndsIF(w) ELSE EndsCASE(w)
IsMid(open, w) == IF open = "IF" THEN StartsTHEN(w) ELSE StartsOF(w)
IsClose(open, w) == IF open = "IF" THEN HasEND_IF(w) ELSE HasEND_CASE(w)

\* The span  open\s+ .*? \s+mid \s* .*? \s* close  that starts at word i.
SpanAt(t, open, i) ==
    LET w == FirstTrue(Words(t), i + 1)
        m == IF w = 0 THEN 0
             ELSE FirstTrue([j \in 1..Len(t) |-> IsMid(open, t[j])], w + 1)
        c == IF m = 0 THEN 0
             ELSE FirstTrue([j \in 1..Len(t) |-> IsClose(open, t[j])], m + 1)
    IN  IF c = 0 THEN NoMatch
        ELSE [found |-> TRUE, start |-> i, mid |-> m, end |-> c]

(* re.search: the leftmost start that matches. *)
SearchSpan(t, open) ==
    LET Matches(j) == EndsOpen(open, t[j]) /\ SpanAt(t, open, j).found
        o == FirstTrue([j \in 1..Len(t) |-> Matches(j)], 1)
    IN  IF o = 0 THEN NoMatch ELSE SpanAt(t, open, o)

(* _find_next_control_structure: the earliest of the first IF ... END_IF   *)
(* and the first CASE ... END_CASE span, as (type, start_pos, end_pos,     *)
(* content); start_pos is the word the match starts in, end_pos the word   *)
(* it ends with, and content starts with the keyword itself.               *)
_find_next_control_structure(st_code) ==
    LET if_match == SearchSpan(st_code, "IF")
        case_match == SearchSpan(st_code, "CASE")
        Found(type, m) ==
            [found |-> TRUE, type |-> type, start_pos |-> m.start, end_pos |-> m.end,
             content |-> <<type>> \o SubSeq(st_code, m.start + 1, m.end)]
    IN  IF if_match.found /\ (~case_match.found \/ if_match.start <= case_match.start)
        THEN Found("IF", if_match)
        ELSE IF case_match.found THEN Found("CASE", case_match)
        ELSE NoMatch

(* remaining_code[:start_pos]: the words before the match and, when it     *)
(* starts inside a word, the characters of that word before the keyword.   *)
BeforeMatch(t, start_pos) == SubSeq(t, 1, start_pos - 1) \o KeywordPrefix(t[start_pos])

\* re.match(r'IF\s+(.*?)\s+THEN\s*(.*?)\s*(?:ELSE\s*(.*?)\s*)?END_IF')
\* on the content of an IF span: group 2 ends at the first ELSE or END_IF.
IfGroups(content) ==
    LET m == SpanAt(content, "IF", 1)
        e == FirstTrue([j \in 1..Len(content) |-> HasELSE(content[j])], m.mid + 1)
    IN  IF ~m.found THEN NoMatch
        ELSE IF e = 0 \/ e > m.end
        THEN [found |-> TRUE, g1 |-> SubSeq(content, 2, m.mid - 1),
              g2 |-> SubSeq(content, m.mid + 1, m.end - 1), g3 |-> <<>>]
        ELSE [found |-> TRUE, g1 |-> SubSeq(content, 2, m.mid - 1),
              g2 |-> SubSeq(content, m.mid + 1, e - 1),
              g3 |-> SubSeq(content, e + 1, m.end - 1)]

\* re.match(r'CASE\s+([^:]*?)\s+OF\s*(.*?)\s*END_CASE') on the content of
\* a CASE span: no match when a `:` stands before the first OF.
CaseGroups(content) ==
    LET m == SpanAt(content, "CASE", 1)
    IN  IF ~m.found \/ \E k \in 2..m.mid - 1 : HasColon(content[k]) THEN NoMatch
        ELSE [found |-> TRUE, g1 |-> SubSeq(content, 2, m.mid - 1),
              g2 |-> SubSeq(content, m.mid + 1, m.end - 1)]

(* _parse_nested_structures: one call of the recursion per pass of the     *)
(* `while remaining_code.strip()` loop.                                    *)
RECURSIVE _parse_nested_structures(_)
_parse_nested_structures(remaining_code) ==
    IF Strip(remaining_code) = <<>> THEN <<>>
    ELSE
    LET next_control == _find_next_control_structure(remaining_code)
    IN  IF ~next_control.found THEN _parse_simple_statements(remaining_code)
        ELSE
        LET before_control == Strip(BeforeMatch(remaining_code, next_control.start_pos))
            before == IF before_control # <<>>
                      THEN _parse_simple_statements(before_control) ELSE <<>>
            rest == SubSeq(remaining_code, next_control.end_pos + 1, Len(remaining_code))
            if_match == IfGroups(next_control.content)
            case_match == CaseGroups(next_control.content)
            this ==
                IF next_control.type = "IF"
                THEN IF if_match.found
                     THEN <<IfStmt(Strip(if_match.g1),
                                   _parse_nested_structures(Strip(if_match.g2)),
                                   _parse_nested_structures(Strip(if_match.g3)))>>
                     ELSE <<>>
                ELSE IF case_match.found
                     THEN <<Stmt("CASE", Strip(case_match.g1))>>
                              \o _parse_case_branches(Strip(case_match.g2))
                              \o <<Stmt("END_CONTROL", <<"END_CASE">>)>>
                     ELSE <<>>
        IN  before \o this \o _parse_nested_structures(rest)

(* _parse_st_statements *)
_parse_st_statements(st_code) ==
    IF Strip(st_code) = <<>> THEN <<>> ELSE _parse_nested_structures(st_code)

(***************************************************************************)
(* FLOWCHART.  The builder appends text lines; a line of the model is a    *)
(* record: a node declaration  id["label"] / id{"label"},  an edge         *)
(* from --> id  or  from -->|elabel| id,  possibly declaring its target    *)
(* inline (from --> id["label"]), or the header comment block.  A node id  *)
(* is the tuple <<prefix, number>> of the string prefix + str(number)      *)
(* (<<"Branch", n, k>> for Branch{n}_{k}); a label is a sequence of words. *)
(***************************************************************************)
None == <<>>

Node(id, shape, label) ==
    [k |-> "node", from |-> None, elabel |-> None, id |-> id, shape |-> shape, label |-> label]
Edge(from, elabel, to) ==
    [k |-> "edge", from |-> from, elabel |-> elabel, id |-> to, shape |-> "", label |-> None]
EdgeDecl(from, elabel, to, label) ==
    [k |-> "edge", from |-> from, elabel |-> elabel, id |-> to, shape |-> "rect", label |-> label]

Start == <<"Start">>
End == <<"End">>
True == <<"True">>
False == <<"False">>

(* .replace('"', '\\"') on a word *)
EscapeWord(w) ==
    CASE w = "m:=\"on\"" -> "m:=\\\"on\\\""
      [] OTHER -> w
EscapeQuotes(content) == [j \in 1..Len(content) |-> EscapeWord(content[j])]

(* the comment block that opens a flowchart: the program name and the line *)
(* counts of the original code (its character counts are not modelled).   *)
Header(pou_name, original_code) ==
    LET code_lines == SplitLines(original_code)
    IN  [k |-> "header", from |-> None, elabel |-> None, id |-> None, shape |-> "",
         label |-> <<pou_name, Len(code_lines),
                     Len(SelectSeq(code_lines, LAMBDA l : Strip(l) # <<>>))>>]

ThenBase == 100
ElseBase == 1000
NestedElseOffset == 100

(* A body whose statements each become one rectangle: lines 497-503.       *)
RECURSIVE Chain(_, _, _, _)
Chain(prefix, sub_id, stmts, previous) ==
    IF stmts = <<>> THEN [lines |-> <<>>, previous |-> previous, sub_id |-> sub_id]
    ELSE LET node == <<prefix, sub_id>>
             rest == Chain(prefix, sub_id + 1, Tail(stmts), node)
         IN  [lines |-> <<Node(node, "rect", EscapeQuotes(stmts[1].content)),
                          Edge(previous, None, node)>> \o rest.lines,
              previous |-> rest.previous, sub_id |-> rest.sub_id]

(* An IF nested in a THEN- or ELSE-body: lines 483-531 and 558-606.        *)
NestedIf(stmt, sub_id, previous) ==
    LET nested_if_node == <<"If", sub_id>>
        nested_then_start == <<"ThenStart", sub_id>>
        nested_then_end == <<"ThenEnd", sub_id>>
        nested_else_start == <<"ElseStart", sub_id>>
        nested_else_end == <<"ElseEnd", sub_id>>
        nested_merge_node == <<"Merge", sub_id>>
        thens == Chain("Then", sub_id + 1, stmt.then_statements, nested_then_start)
        elses == Chain("Else", sub_id + NestedElseOffset, stmt.else_statements, nested_else_start)
    IN  [lines |->
             <<Node(nested_if_node, "diamond", <<"IF">> \o EscapeQuotes(stmt.content)),
               Edge(previous, None, nested_if_node),
               EdgeDecl(nested_if_node, True, nested_then_start, <<"THEN", "branch">>)>>
             \o thens.lines
             \o <<Edge(thens.previous, None, nested_then_end),
                  EdgeDecl(nested_if_node, False, nested_else_start, <<"ELSE", "branch">>)>>
             \o elses.lines
             \o <<Edge(elses.previous, None, nested_else_end),
                  Edge(nested_then_end, None, nested_merge_node),
                  Edge(nested_else_end, None, nested_merge_node)>>,
         previous |-> nested_merge_node,
         sub_id |-> elses.sub_id + 1]

(* The statements of a THEN-body (prefix "Then") or an ELSE-body ("Else"): *)
(* lines 481-540 and 556-615.                                              *)
RECURSIVE Body(_, _, _, _)
Body(prefix, sub_id, stmts, previous) ==
    IF stmts = <<>> THEN [lines |-> <<>>, previous |-> previous, sub_id |-> sub_id]
    ELSE LET stmt == stmts[1]
             this == IF stmt.type = "IF" /\ stmt.parsed
                     THEN NestedIf(stmt, sub_id, previous)
                     ELSE Chain(prefix, sub_id, <<stmt>>, previous)
             rest == Body(prefix, this.sub_id, Tail(stmts), this.previous)
         IN  [lines |-> this.lines \o rest.lines,
              previous |-> rest.previous, sub_id |-> rest.sub_id]

(* An IF whose ELSE branch is left open: the lines of IfLines without the  *)
(* edge from ElseEnd to the merge node.                                    *)
IfLinesElseLeftOpen(stmt, node_id, previous_node) ==
    LET if_node == <<"If", node_id>>
        then_start_node == <<"ThenStart", node_id>>
        then_end_node == <<"ThenEnd", node_id>>
        else_start_node == <<"ElseStart", node_id>>
        else_end_node == <<"ElseEnd", node_id>>
        merge_node == <<"Merge", node_id>>
        thens == Body("Then", node_id * ThenBase, stmt.then_statements, then_start_node)
        elses == Body("Else", node_id * ElseBase, stmt.else_statements, else_start_node)
    IN  <<Node(if_node, "diamond", <<"IF">> \o EscapeQuotes(stmt.content)),
          Edge(previous_node, None, if_node),
          EdgeDecl(if_node, True, then_start_node, <<"THEN", "branch">>)>>
        \o thens.lines
        \o <<Edge(thens.previous, None, then_end_node),
             EdgeDecl(if_node, False, else_start_node, <<"ELSE", "branch">>)>>
        \o elses.lines
        \o <<Edge(elses.previous, None, else_end_node),
             Edge(then_end_node, None, merge_node)>>

(* stmt['type'] == 'IF' and 'then_statements' in stmt: lines 463-626 *)
IfLines(stmt, node_id, previous_node) ==
    LET if_node == <<"If", node_id>>
        then_start_node == <<"ThenStart", node_id>>
        then_end_node == <<"ThenEnd", node_id>>
        else_start_node == <<"ElseStart", node_id>>
        else_end_node == <<"ElseEnd", node_id>>
        merge_node == <<"Merge", node_id>>
        thens == Body("Then", node_id * ThenBase, stmt.then_statements, then_start_node)
        elses == Body("Else", node_id * ElseBase, stmt.else_statements, else_start_node)
    IN  <<Node(if_node, "diamond", <<"IF">> \o EscapeQuotes(stmt.content)),
          Edge(previous_node, None, if_node),
          EdgeDecl(if_node, True, then_start_node, <<"THEN", "branch">>)>>
        \o thens.lines
        \o <<Edge(thens.previous, None, then_end_node),
             EdgeDecl(if_node, False, else_start_node, <<"ELSE", "branch">>)>>
        \o elses.lines
        \o <<Edge(elses.previous, None, else_end_node),
             Edge(then_end_node, None, merge_node),
             Edge(else_end_node, None, merge_node)>>

(* stmt['type'] == 'CASE': lines 628-669.  CaseEnd is the index at which   *)
(* the inner while loop stops: the first END_CONTROL after the CASE, or    *)
(* one past the last statement.                                            *)
CaseEnd(statements, i) ==
    LET e == FirstTrue([j \in 1..Len(statements) |-> statements[j].type = "END_CONTROL"], i + 1)
    IN  IF e = 0 THEN Len(statements) + 1 ELSE e

CaseBranches(statements, i) ==
    SelectSeq(SubSeq(statements, i + 1, CaseEnd(statements, i) - 1),
              LAMBDA b : b.type = "CASE_BRANCH")

CaseLines(statements, i, node_id, previous_node) ==
    LET case_node == <<"Case", node_id>>
        merge_node == <<"Merge", node_id>>
        branches == CaseBranches(statements, i)
        BranchNode(branch_id) == <<"Branch", node_id, branch_id>>
        ActionContent(action) == IF action = <<>> THEN <<"NA">> ELSE EscapeQuotes(action)
    IN  <<Node(case_node, "diamond", <<"CASE">> \o statements[i].content),
          Edge(previous_node, None, case_node)>>
        \o Flatten([b \in 1..Len(branches) |->
               <<Node(BranchNode(b), "rect", ActionContent(branches[b].action)),
                 Edge(case_node, EscapeQuotes(branches[b].condition), BranchNode(b))>>])
        \o <<Node(merge_node, "rect", <<"Continue", "after", "CASE">>)>>
        \o [b \in 1..Len(branches) |-> Edge(BranchNode(b), None, merge_node)]

\* re.match(r'(.+?):=\s*SEL\s*\(\s*(.+?)\s*,\s*(.+?)\s*,\s*(.+?)\s*\)') on a
\* statement: the groups of the word that holds the call.  Group 4 is lazy
\* and ends before the first `)` that follows the second comma.
SelArgs(w) ==
    CASE w \in {"T:=SEL(c,a,b)", "T:=SEL(c,a,b);"} ->
             [found |-> TRUE, target |-> <<"T">>, condition |-> <<"c">>,
              second |-> <<"a">>, third |-> <<"b">>]
      [] w \in {"T:=SEL(c,a,F(b))", "T:=SEL(c,a,F(b));"} ->
             [found |-> TRUE, target |-> <<"T">>, condition |-> <<"c">>,
              second |-> <<"a">>, third |-> <<"F(b">>]
      [] w \in {"T:=SEL(c,a,b,d)", "T:=SEL(c,a,b,d);"} ->
             [found |-> TRUE, target |-> <<"T">>, condition |-> <<"c">>,
              second |-> <<"a">>, third |-> <<"b,d">>]
      [] OTHER -> NoMatch

SelMatch(content) ==
    LET j == FirstTrue([k \in 1..Len(content) |-> HasSelCall(content[k]) /\ HasAssign(content[k])], 1)
    IN  IF j = 0 THEN NoMatch
        ELSE LET a == SelArgs(content[j])
             IN  IF ~a.found THEN NoMatch
                 ELSE [found |-> TRUE,
                       target_var |-> SubSeq(content, 1, j - 1) \o a.target,
                       condition |-> a.condition,
                       false_value |-> a.second,
                       true_value |-> a.third]

(* stmt['type'] == 'SEL_DECISION' and the call matches: lines 679-710 *)
SelLines(stmt, node_id, previous_node) ==
    LET m == SelMatch(stmt.content)
        sel_node == <<"SEL", node_id>>
        true_node == <<"SEL_True", node_id>>
        false_node == <<"SEL_False", node_id>>
        merge_node == <<"Merge", node_id>>
    IN  <<Node(sel_node, "diamond", <<"SEL:">> \o EscapeQuotes(m.condition)),
          Edge(previous_node, None, sel_node),
          Node(true_node, "rect", EscapeQuotes(m.target_var \o <<":=">> \o m.true_value)),
          Edge(sel_node, True, true_node),
          Node(false_node, "rect", EscapeQuotes(m.target_var \o <<":=">> \o m.false_value)),
          Edge(sel_node, False, false_node),
          Edge(true_node, None, merge_node),
          Edge(false_node, None, merge_node)>>

(* a single rectangle Action{node_id}: lines 713-717, 722-726, 735-739 *)
ActionLines(stmt, node_id, previous_node) ==
    <<Node(<<"Action", node_id>>, "rect", EscapeQuotes(stmt.content)),
      Edge(previous_node, None, <<"Action", node_id>>)>>

(* _create_empty_flowchart and _create_error_flowchart, and the flowchart  *)
(* of an empty statement list (lines 451-454).                             *)
StartNode(pou_name) == Node(Start, "rect", <<"Start:", pou_name>>)

(* A placeholder drawn as the builder draws an empty statement list. *)
EmptyFlowchartAsNoCode(pou_name) ==
    <<StartNode(pou_name),
      EdgeDecl(Start, None, <<"NoCode">>, <<"No", "ST", "statements", "parsed">>),
      EdgeDecl(<<"NoCode">>, None, End, <<"End:", pou_name>>)>>

_create_empty_flowchart(pou_name) ==
    <<StartNode(pou_name), EdgeDecl(Start, None, End, <<"End:", pou_name, "(No", "Code)">>)>>

_create_error_flowchart(pou_name, error_msg) ==
    <<StartNode(pou_name),
      EdgeDecl(Start, None, <<"Error">>, <<"Error:", error_msg>>),
      EdgeDecl(<<"Error">>, None, End, <<"End:", pou_name>>)>>

NoStatementsFlowchart(pou_name, original_code) ==
    <<Header(pou_name, original_code), StartNode(pou_name),
      EdgeDecl(Start, None, <<"NoCode">>, <<"No", "ST", "statements", "parsed">>),
      EdgeDecl(<<"NoCode">>, None, End, <<"End:", pou_name>>)>>

(***************************************************************************)
(* INPUTS.  process_code is called with an ST source and a program name.   *)
(* The sources are built from fragments, each family of fragments giving   *)
(* the texts of up to MaxFrags fragments, written one fragment a line      *)
(* (indented after the first line, the last line ended by a line break) or *)
(* all on one line.  Besides texts the callers can pass None (extract_code *)
(* found no ST element) and, against the annotation `st_code: str`, a      *)
(* bytes object, on which _clean_st_code raises TypeError.                 *)
(***************************************************************************)
MaxFrags == 4

Fragment(f) ==
    CASE f = "IF" -> <<"IF", "x&gt;0", "THEN">>
      [] f = "ELSIF" -> <<"ELSIF", "x&gt;0", "THEN">>
      [] f = "ELSE" -> <<"ELSE">>
      [] f = "END_IF" -> <<"END_IF">>
      [] f = "assign" -> <<"y:=1;">>
      [] f = "CASE" -> <<"CASE", "v", "OF">>
      [] f = "branch1" -> <<"1:", "A();">>
      [] f = "branch2" -> <<"2:", "B();">>
      [] f = "END_CASE" -> <<"END_CASE">>
      [] f = "call" -> <<"A();">>
      [] f = "strlit" -> <<"s:='a;b';">>
      [] f = "sel3" -> <<"T:=SEL(c,a,b);">>
      [] f = "sel2" -> <<"T:=SEL(c,a);">>
      [] f = "selcall" -> <<"T:=SEL(c,a,F(b));">>
      [] f = "sel4" -> <<"T:=SEL(c,a,b,d);">>
      [] f = "parens" -> <<"F(a;b);">>
      [] f = "brackets" -> <<"m[1;2]:=0;">>
      [] f = "lhs" -> <<"y", ":=">>
      [] f = "lhsIF" -> <<"tDIF", ":=">>
      [] f = "rhs" -> <<"1;">>
      [] f = "comment" -> <<"(*", "IF", "x&gt;0", "THEN">>
      [] f = "end_comment" -> <<"*)">>
      [] f = "WHILE" -> <<"WHILE", "c", "DO">>
      [] f = "END_WHILE" -> <<"END_WHILE">>
      [] f = "label" -> <<"1:">>
      [] f = "END_REPEAT" -> <<"END_REPEAT;">>

IfFamily == {"IF", "ELSIF", "ELSE", "END_IF", "assign"}
CaseFamily == {"CASE", "branch1", "branch2", "END_CASE", "assign"}
PlainFamily == {"assign", "call", "strlit", "sel3", "sel2", "WHILE", "END_WHILE"}
SelFamily == {"sel3", "sel2", "selcall", "sel4", "assign"}
SemiFamily == {"assign", "strlit", "parens", "brackets"}
LineFamily == {"lhs", "lhsIF", "rhs", "call"}
CommentFamily == {"comment", "end_comment", "assign", "call"}
LabelFamily == {"CASE", "label", "branch2", "END_CASE"}
MarkerFamily == {"END_IF", "END_CASE", "END_WHILE", "END_REPEAT"}
Families ==
    {IfFamily, CaseFamily, PlainFamily, SelFamily, SemiFamily, LineFamily, CommentFamily,
     LabelFamily, MarkerFamily}

FragmentLists == UNION {[1..n -> fam] : n \in 0..MaxFrags, fam \in Families}

OnOneLine(frags) == Flatten([j \in 1..Len(frags) |-> Fragment(frags[j])])
OnLines(frags) ==
    Flatten([j \in 1..Len(frags) |->
                 (IF j = 1 THEN <<>> ELSE <<SP>>) \o Fragment(frags[j]) \o <<NL>>])

Texts == {OnOneLine(fs) : fs \in FragmentLists} \cup {OnLines(fs) : fs \in FragmentLists}

(* Texts of blanks and line breaks only. *)
BlankTexts == {<<SP>>, <<NL>>, <<NL, NL>>, <<SP, NL, SP>>}

StCodes ==
    {[type |-> "str", text |-> t] : t \in Texts \cup BlankTexts}
        \cup {[type |-> "NoneType", text |-> <<>>]}
        \cup {[type |-> "bytes", text |-> t] : t \in {<<>>, <<SP, NL>>, <<"y:=1;">>}}

PouNames == {"PLC_PRG"}

TypeErrorMessage == "a bytes-like object is required, not 'str'"

(***************************************************************************)
(* Statement lists handed to _build_flowchart_from_statements directly.    *)
(* Forests(d, n) are the lists of n statements in all, each a plain        *)
(* assignment or an IF with parsed bodies, IFs nested at most d deep (the  *)
(* builder looks for an IF inside a body, not inside the body of that IF). *)
(* The flat lists mix the statement types the builder tells apart.         *)
(***************************************************************************)
MaxSize == 6
MaxFlat == 4

Plain == Stmt("ASSIGNMENT", <<"y:=1">>)

RECURSIVE Forests(_, _), StmtsOf(_, _)
Forests(d, n) ==
    IF n = 0 THEN {<<>>}
    ELSE UNION {{<<s>> \o r : s \in StmtsOf(d, k), r \in Forests(d, n - k)} : k \in 1..n}
StmtsOf(d, k) ==
    (IF k = 1 THEN {Plain} ELSE {})
        \cup (IF d = 0 THEN {}
              ELSE UNION {{IfStmt(<<"x>0">>, t, e) :
                               t \in Forests(d - 1, a), e \in Forests(d - 1, k - 1 - a)} :
                          a \in 0..(k - 1)})

IfForests == UNION {Forests(2, n) : n \in 0..MaxSize}

(* The lists of up to MaxDeep statements with an IF in the body of an IF   *)
(* in the body of an IF.                                                   *)
MaxDeep == 4
DeepForests == UNION {Forests(3, n) : n \in 0..MaxDeep}

FlatKinds ==
    {Plain,
     Stmt("FUNCTION_CALL", <<"A()">>),
     Stmt("CASE", <<"v">>),
     BranchStmt(<<"1:", "A()">>, <<"1">>, <<"A()">>),
     Stmt("END_CONTROL", <<"END_CASE">>),
     Stmt("SEL_DECISION", <<"T:=SEL(c,a,b)">>),
     Stmt("SEL_DECISION", <<"T:=SEL(c,a)">>),
     Stmt("WHILE", <<"WHILE", "c", "DO">>),
     IfStmt(<<"x>0">>, <<Plain>>, <<>>)}

FlatLists == UNION {[1..n -> FlatKinds] : n \in 0..MaxFlat}

StatementLists == IfForests \cup DeepForests \cup FlatLists

(***************************************************************************)
(* The calls of a run that converts several components with one           *)
(* STProcessor: a few programs, one of them failing, under two names, the  *)
(* namespace of the document set in between.                               *)
(***************************************************************************)
ProbeLists ==
    {<<"IF", "assign", "END_IF">>, <<"CASE", "branch1", "END_CASE", "call">>,
     <<"sel3", "sel2">>, <<"WHILE", "assign", "END_WHILE">>, <<"assign", "END_IF">>}
ProbeCodes ==
    {[type |-> "str", text |-> OnLines(fs)] : fs \in ProbeLists}
        \cup {[type |-> "NoneType", text |-> <<>>], [type |-> "bytes", text |-> <<"y:=1;">>]}
ProbeNames == {"PLC_PRG", "FB_Motor"}
Namespaces == {"", "http://www.plcopen.org/xml/tc6_0200"}

(***************************************************************************)
(* STATE.  pc is the place of the one thread: "idle" between calls,        *)
(* "build" inside the `while i < len(statements)` loop of                  *)
(* _build_flowchart_from_statements, "done" when process_code has          *)
(* returned `result`.  st_code and pou_name are the arguments; statements, *)
(* i, node_id, previous_node and lines the builder's locals (i counts from *)
(* 1).  The object itself holds only `namespace`.                          *)
(***************************************************************************)
VARIABLES pc, namespace, st_code, pou_name, statements, i, node_id, previous_node,
          lines, result, memo

(* The window of the application (SmartMermaidProcessor): gui_pc is the    *)
(* place of its one thread, "idle" before a scan, "scanning" inside the    *)
(* loop of extract_pous_fallback, "scanned" between the handlers,          *)
(* "processing" inside the second loop of process_selected_pous and        *)
(* "complete" when that handler has reported.  document is the parsed      *)
(* file, pou_index the loop variable of the scan (counting from 1);        *)
(* object_id_map, discovered_pous and discovered_actions are the fields    *)
(* of the object; to_process and success_count are the locals              *)
(* all_pous_to_process and success_count of process_selected_pous.         *)
(* processed is a history variable: the components the second loop has     *)
(* taken, in the order it took them, each with what became of it.          *)
VARIABLES gui_pc, document, pou_index, object_id_map, discovered_pous, discovered_actions,
          to_process, success_count, processed

conv == <<pc, namespace, st_code, pou_name, statements, i, node_id, previous_node,
          lines, result, memo>>

gui == <<gui_pc, document, pou_index, object_id_map, discovered_pous, discovered_actions,
         to_process, success_count, processed>>

(* The drawing of one component: label_text is the text last given to     *)
(* clean_text_for_mermaid_full ("node") or clean_text_for_connection       *)
(* ("connection"), label_out what it returned.  hash_seed is the hash of       *)
(* strings of the running interpreter, generated the component last given  *)
(* to generate_full_text_mermaid_flowchart and mermaid what it returned.   *)
VARIABLES label_kind, label_text, label_out, hash_seed, generated, mermaid

gen == <<label_kind, label_text, label_out, hash_seed, generated, mermaid>>

(* The hierarchical conversion (HierarchicalProcessor): object_ids are the *)
(* components of the window (gui_manager.object_ids) in the order of the   *)
(* dictionary, processed_components the field of that name.  call_stack    *)
(* holds the running calls of process_component_hierarchically, the        *)
(* innermost last: its component, the called components it has found and   *)
(* the place of its loop over them.  returned is what the last call from   *)
(* outside has returned, calls_made how many such calls were made.         *)
(* generated_components is a history variable: the ids of the components   *)
(* given to _process_component_with_hierarchy, in that order.              *)
VARIABLES object_ids, processed_components, call_stack, returned, calls_made,
          generated_components

hier == <<object_ids, processed_components, call_stack, returned, calls_made,
          generated_components>>

(* The running calls of _parse_nested_structures, the innermost last:      *)
(* remaining_code and statements are the locals of that name, next_control *)
(* what _find_next_control_structure found in the pass of the loop that is *)
(* under way (NoMatch between two passes), pending the blocks of that pass *)
(* still to be parsed, collected what the calls for its blocks returned,   *)
(* and finished tells that the loop has ended.  st_code is the argument of *)
(* the call; before_pass is a history field, the remaining code at the     *)
(* head of the last pass (advanced: a pass has been completed).            *)
VARIABLE calls_running

vars == <<conv, gui, gen, hier, calls_running>>

NoCode == [type |-> "NoneType", text |-> <<>>]

(* memo is a history variable: one earlier call and what it returned, and  *)
(* whether a failing call has returned since.                              *)
NoMemo == [noted |-> FALSE]

(* no component has been drawn *)
NoComponent ==
    [name |-> "", executable_content |-> <<>>, sub_pou_calls |-> {}, is_internal |-> FALSE]

(* no file has been parsed *)
NoDocument == [pous |-> <<>>, structure |-> FALSE]

Init ==
    /\ pc = "idle"
    /\ namespace = ""
    /\ st_code = NoCode
    /\ pou_name = ""
    /\ statements = <<>>
    /\ i = 1
    /\ node_id = 1
    /\ previous_node = Start
    /\ lines = <<>>
    /\ result = <<>>
    /\ memo = NoMemo
    /\ gui_pc = "idle"
    /\ document = NoDocument
    /\ pou_index = 1
    /\ object_id_map = {}
    /\ discovered_pous = <<>>
    /\ discovered_actions = <<>>
    /\ to_process = {}
    /\ success_count = 0
    /\ processed = <<>>
    /\ label_kind = "none"
    /\ label_text = <<>>
    /\ label_out = <<>>
    /\ hash_seed = <<>>
    /\ generated = NoComponent
    /\ mermaid = <<>>
    /\ object_ids = <<>>
    /\ processed_components = {}
    /\ call_stack = <<>>
    /\ returned = "nothing"
    /\ calls_made = 0
    /\ generated_components = <<>>
    /\ calls_running = <<>>

(* `not st_code or not st_code.strip()` *)
IsEmptyCode(code) == code.type = "NoneType" \/ Strip(code.text) = <<>>

(* A builder that writes the namespace of the object into the Start node. *)
EnterBuilderInNamespace(stmts, name, original_code) ==
    /\ statements' = stmts
    /\ IF statements' = <<>>
       THEN /\ result' = NoStatementsFlowchart(name, original_code)
            /\ pc' = "done"
            /\ UNCHANGED <<i, node_id, previous_node, lines>>
       ELSE /\ lines' = <<Header(name, original_code),
                          Node(Start, "rect", <<"Start:", namespace, name>>)>>
            /\ node_id' = 1
            /\ previous_node' = Start
            /\ i' = 1
            /\ pc' = "build"
            /\ UNCHANGED result

(* The builder's locals as lines 428-459 set them. *)
EnterBuilder(stmts, name, original_code) ==
    /\ statements' = stmts
    /\ IF statements' = <<>>
       THEN /\ result' = NoStatementsFlowchart(name, original_code)
            /\ pc' = "done"
            /\ UNCHANGED <<i, node_id, previous_node, lines>>
       ELSE /\ lines' = <<Header(name, original_code), StartNode(name)>>
            /\ node_id' = 1
            /\ previous_node' = Start
            /\ i' = 1
            /\ pc' = "build"
            /\ UNCHANGED result

(* process_code without its `except Exception`: the TypeError of           *)
(* _clean_st_code leaves the call.                                         *)
ProcessCodeUnguarded(code, name) ==
    /\ pc = "idle"
    /\ st_code' = code
    /\ pou_name' = name
    /\ UNCHANGED <<namespace, memo, gui, gen, hier, calls_running>>
    /\ IF IsEmptyCode(code)
       THEN /\ result' = _create_empty_flowchart(name)
            /\ pc' = "done"
            /\ UNCHANGED <<statements, i, node_id, previous_node, lines>>
       ELSE IF code.type # "str"
       THEN /\ pc' = "raised"
            /\ UNCHANGED <<statements, i, node_id, previous_node, lines, result>>
       ELSE LET cleaned_code == _clean_st_code(code.text)
            IN  IF Strip(cleaned_code) = <<>>
                THEN /\ result' = _create_empty_flowchart(name)
                     /\ pc' = "done"
                     /\ UNCHANGED <<statements, i, node_id, previous_node, lines>>
                ELSE EnterBuilder(_parse_st_statements(cleaned_code), name, code.text)

(* process_code, lines 78-111, up to the builder's loop.  Everything is    *)
(* inside `try`; `except Exception` answers with the error flowchart.      *)
ProcessCode(code, name) ==
    /\ pc = "idle"
    /\ st_code' = code
    /\ pou_name' = name
    /\ UNCHANGED <<namespace, memo, gui, gen, hier, calls_running>>
    /\ IF IsEmptyCode(code)
       THEN /\ result' = _create_empty_flowchart(name)
            /\ pc' = "done"
            /\ UNCHANGED <<statements, i, node_id, previous_node, lines>>
       ELSE IF code.type # "str"
       THEN /\ result' = _create_error_flowchart(name, TypeErrorMessage)
            /\ pc' = "done"
            /\ UNCHANGED <<statements, i, node_id, previous_node, lines>>
       ELSE LET cleaned_code == _clean_st_code(code.text)
            IN  IF Strip(cleaned_code) = <<>>
                THEN /\ result' = _create_empty_flowchart(name)
                     /\ pc' = "done"
                     /\ UNCHANGED <<statements, i, node_id, previous_node, lines>>
                ELSE EnterBuilder(_parse_st_statements(cleaned_code), name, code.text)

InLoop == pc = "build" /\ i <= Len(statements)

Emit(new_lines, new_previous, next_i, next_node_id) ==
    /\ lines' = lines \o new_lines
    /\ previous_node' = new_previous
    /\ i' = next_i
    /\ node_id' = next_node_id
    /\ UNCHANGED <<pc, namespace, st_code, pou_name, statements, result, memo, gui, gen, hier, calls_running>>

BuildIf ==
    /\ InLoop
    /\ statements[i].type = "IF" /\ statements[i].parsed
    /\ Emit(IfLines(statements[i], node_id, previous_node), <<"Merge", node_id>>,
            i + 1, node_id + 1)

BuildCase ==
    /\ InLoop
    /\ statements[i].type = "CASE"
    /\ Emit(CaseLines(statements, i, node_id, previous_node), <<"Merge", node_id>>,
            CaseEnd(statements, i) + 1, node_id + 1)

BuildSelDecision ==
    /\ InLoop
    /\ statements[i].type = "SEL_DECISION"
    /\ SelMatch(statements[i].content).found
    /\ Emit(SelLines(statements[i], node_id, previous_node), <<"Merge", node_id>>,
            i + 1, node_id + 1)

BuildSelFallback ==
    /\ InLoop
    /\ statements[i].type = "SEL_DECISION"
    /\ ~SelMatch(statements[i].content).found
    /\ Emit(ActionLines(statements[i], node_id, previous_node), <<"Action", node_id>>,
            i + 1, node_id + 1)

BuildLoop ==
    /\ InLoop
    /\ statements[i].type \in {"FOR", "WHILE", "REPEAT"}
    /\ Emit(ActionLines(statements[i], node_id, previous_node), <<"Action", node_id>>,
            i + 1, node_id + 1)

SkipEndControl ==
    /\ InLoop
    /\ statements[i].type = "END_CONTROL"
    /\ Emit(<<>>, previous_node, i + 1, node_id)

BuildAction ==
    /\ InLoop
    /\ ~(statements[i].type = "IF" /\ statements[i].parsed)
    /\ statements[i].type \notin {"CASE", "SEL_DECISION", "FOR", "WHILE", "REPEAT", "END_CONTROL"}
    /\ Emit(ActionLines(statements[i], node_id, previous_node), <<"Action", node_id>>,
            i + 1, node_id + 1)

(* line 744-746: the edge into End, and the return. *)
Finish ==
    /\ pc = "build" /\ i > Len(statements)
    /\ result' = Append(lines, EdgeDecl(previous_node, None, End, <<"End:", pou_name>>))
    /\ pc' = "done"
    /\ UNCHANGED <<namespace, st_code, pou_name, statements, i, node_id, previous_node, lines,
                   memo, gui, gen, hier, calls_running>>

IsErrorFlowchart(flowchart) ==
    \E j \in 1..Len(flowchart) : flowchart[j].id = <<"Error">>

(* The caller takes the string; the frame of the call is gone. *)
Return ==
    /\ pc = "done"
    /\ pc' = "idle"
    /\ st_code' = NoCode /\ pou_name' = ""
    /\ statements' = <<>> /\ i' = 1 /\ node_id' = 1 /\ previous_node' = Start
    /\ lines' = <<>> /\ result' = <<>>
    /\ memo' = IF memo.noted /\ IsErrorFlowchart(result)
               THEN [memo EXCEPT !.failure_since = TRUE]
               ELSE memo
    /\ UNCHANGED <<namespace, gui, gen, hier, calls_running>>

(* The history variable takes down the call that has just finished. *)
Note ==
    /\ pc = "done"
    /\ ~memo.noted
    /\ memo' = [noted |-> TRUE, st_code |-> st_code, pou_name |-> pou_name,
                namespace |-> namespace, result |-> result, failure_since |-> FALSE]
    /\ UNCHANGED <<pc, namespace, st_code, pou_name, statements, i, node_id, previous_node,
                   lines, result, gui, gen, hier, calls_running>>

BuildStep ==
    \/ BuildIf
    \/ BuildCase
    \/ BuildSelDecision
    \/ BuildSelFallback
    \/ BuildLoop
    \/ SkipEndControl
    \/ BuildAction
    \/ Finish

(* A caller (MermaidProcessor, HierarchicalProcessor) converts a program. *)
Call ==
    /\ pc = "idle"
    /\ \E code \in StCodes, name \in PouNames : ProcessCode(code, name)

Next ==
    \/ Call
    \/ BuildStep
    \/ Return

Spec == Init /\ [][Next]_vars

(* _build_flowchart_from_statements called with a statement list; the     *)
(* original code, of which the header counts the lines, is empty.         *)
CallBuilder ==
    /\ pc = "idle"
    /\ \E stmts \in StatementLists, name \in PouNames :
           /\ st_code' = NoCode
           /\ pou_name' = name
           /\ UNCHANGED <<namespace, memo, gui, gen, hier, calls_running>>
           /\ EnterBuilder(stmts, name, <<>>)

NextBuild ==
    \/ CallBuilder
    \/ BuildStep
    \/ Return

SpecBuild == Init /\ [][NextBuild]_vars

(* set_namespace, lines 17-20 *)
SetNamespace ==
    /\ pc = "idle"
    /\ \E ns \in Namespaces : namespace' = ns
    /\ UNCHANGED <<pc, st_code, pou_name, statements, i, node_id, previous_node, lines,
                   result, memo, gui, gen, hier, calls_running>>

CallProbe ==
    /\ pc = "idle"
    /\ \E code \in ProbeCodes, name \in ProbeNames : ProcessCode(code, name)

NextSeq ==
    \/ SetNamespace
    \/ CallProbe
    \/ BuildStep
    \/ Note
    \/ Return

SpecSeq == Init /\ [][NextSeq]_vars

(***************************************************************************)
(* THE DOCUMENT.  A PLCopen file is the sequence of its <pou> elements in  *)
(* document order; `structure` tells whether the file carries a            *)
(* ProjectStructure with one Object for each of them.  The ST text of a    *)
(* POU or of an action is the sequence of the names it calls, each call    *)
(* written on a line of its own as `Name();`, outside every comment;       *)
(* every POU keeps its text in body/ST and every action in body/ST of the  *)
(* <action> element, which is where CODESYS writes them.                   *)
(***************************************************************************)
MaxPous == 2

ComponentNames == {"Main", "helper"}
ActionNames == {"Act"}

PouBodies == {<<>>, <<"helper">>, <<"Main", "MIN">>, <<"Do_Work", "Act">>}
ActionBodies == {<<"helper">>, <<"Main", "Act">>, <<"Do_Work", "MIN">>}

ActionElements == [name : ActionNames, body : ActionBodies]

PouElements ==
    [name : ComponentNames, body : PouBodies,
     actions : {<<>>} \cup {<<action>> : action \in ActionElements}]

SeqsUpTo(S, n) == UNION {[1..k -> S] : k \in 0..n}

Documents == [pous : SeqsUpTo(PouElements, MaxPous), structure : BOOLEAN]

(* str.upper() on the names that are called *)
CallUpper(call_name) ==
    CASE call_name = "Main" -> "MAIN"
      [] call_name = "helper" -> "HELPER"
      [] call_name = "Do_Work" -> "DO_WORK"
      [] call_name = "Act" -> "ACT"
      [] OTHER -> call_name

(* call_name[0].isupper() *)
StartsUpper(call_name) == call_name \in {"Main", "MIN", "Do_Work", "Act"}

(* '_' in call_name *)
HasUnderscore(call_name) == call_name \in {"Do_Work"}

(* f"{parent_pou_name}.{name}" *)
FullName(parent_pou_name, name) == parent_pou_name \o "." \o name

(* known_pou.endswith(f".{call_name}") *)
EndsWithCall(known_pou, call_name) ==
    \E parent \in ComponentNames : known_pou = FullName(parent, call_name)

(* Codesys_2_Mermaid.py, lines 1009-1016 *)
built_in_functions ==
    {"IF", "THEN", "ELSE", "ELSIF", "END_IF", "CASE", "OF", "END_CASE",
     "FOR", "WHILE", "REPEAT", "END_FOR", "END_WHILE", "END_REPEAT",
     "VAR", "END_VAR", "PROGRAM", "FUNCTION", "FUNCTION_BLOCK", "METHOD",
     "ACTION", "TRUE", "FALSE", "AND", "OR", "NOT", "XOR", "TO_UINT",
     "SIZEOF", "ADR", "SEL", "MAX", "MIN", "LIMIT", "REPLACE_ALL",
     "ARRAY_AVG", "ARRAY_HAV", "MemMove", "TO_STRING"}

(* is_known_pou_call, lines 1006-1037 *)
is_known_pou_call(call_name, all_known_pous) ==
    IF CallUpper(call_name) \in built_in_functions THEN FALSE
    ELSE IF call_name \in all_known_pous THEN TRUE
    ELSE IF \E known_pou \in all_known_pous : EndsWithCall(known_pou, call_name) THEN TRUE
    ELSE /\ StartsUpper(call_name)
         /\ CallUpper(call_name) # call_name
         /\ HasUnderscore(call_name)
         /\ Len(call_name) > 2

(* the names of the entries of a list of components *)
NamesOf(pous) == {pous[k].name : k \in 1..Len(pous)}

(* extract_sub_pou_calls_with_objectids, lines 957-1004, where the         *)
(* ObjectId map is empty: the known names are those of the components      *)
(* discovered so far.  Both the pattern of line 967 and the line-wise      *)
(* patterns of lines 990 and 996 find the calls of the text.               *)
extract_sub_pou_calls_with_objectids(executable_content, all_known_pous) ==
    {executable_content[k] : k \in {j \in 1..Len(executable_content) :
         is_known_pou_call(executable_content[j], all_known_pous)}}

(* extract_structured_sub_pou_calls, lines 783-810: a call counts when an  *)
(* object of the structure has its name.                                   *)
extract_structured_sub_pou_calls(executable_content, all_known_pous) ==
    {executable_content[k] : k \in {j \in 1..Len(executable_content) :
         executable_content[j] \in all_known_pous}}

(* extract_pou_content, lines 726-781 *)
extract_pou_content(pou_element, object_names) ==
    [name |-> pou_element.name,
     executable_content |-> pou_element.body,
     sub_pou_calls |-> extract_structured_sub_pou_calls(pou_element.body, object_names),
     is_action |-> FALSE]

(* extract_action_info, lines 1039-1100 *)
extract_action_info(action_element, parent_pou_name, all_known_pous) ==
    [name |-> FullName(parent_pou_name, action_element.name),
     executable_content |-> action_element.body,
     sub_pou_calls |-> extract_sub_pou_calls_with_objectids(action_element.body,
                                                            all_known_pous),
     is_action |-> TRUE]

(* extract_actions_from_pou, lines 812-830: every action of the POU is     *)
(* extracted before the caller appends any of them.                        *)
extract_actions_from_pou(pou_element, all_known_pous) ==
    [k \in 1..Len(pou_element.actions) |->
        extract_action_info(pou_element.actions[k], pou_element.name, all_known_pous)]

(***************************************************************************)
(* Codesys_2_Mermaid.py, scan_file (lines 610-662).  The lists are reset   *)
(* and build_structure_tree fills the ObjectId map from the Objects of     *)
(* the ProjectStructure; the map is kept here as the set of their names.   *)
(***************************************************************************)
ScanFile ==
    /\ gui_pc = "idle"
    /\ \E doc \in Documents :
           /\ document' = doc
           /\ object_id_map' = IF doc.structure THEN NamesOf(doc.pous) ELSE {}
    /\ discovered_pous' = <<>>
    /\ discovered_actions' = <<>>
    /\ pou_index' = 1
    /\ gui_pc' = "scanning"
    /\ UNCHANGED <<to_process, success_count, processed, conv, gen, hier, calls_running>>

(* extract_all_pou_content, lines 462-498, taken when the map has an       *)
(* entry: process_pou_element (lines 699-724) reads                        *)
(* structure_info['object_id'], a key that process_structure_node never    *)
(* writes into the map, and its `except` logs the KeyError, for every POU. *)
ExtractAllPouContent ==
    /\ gui_pc = "scanning"
    /\ object_id_map # {}
    /\ gui_pc' = "scanned"
    /\ UNCHANGED <<document, pou_index, object_id_map, discovered_pous, discovered_actions,
                   to_process, success_count, processed, conv, gen, hier, calls_running>>

(* One turn of the loop of extract_pous_fallback, lines 507-525. *)
ExtractPousFallback ==
    /\ gui_pc = "scanning"
    /\ object_id_map = {}
    /\ pou_index <= Len(document.pous)
    /\ LET pou_element == document.pous[pou_index]
           pou_info == extract_pou_content(pou_element, object_id_map)
           pous == Append(discovered_pous, pou_info)
           actions == extract_actions_from_pou(pou_element,
                                               NamesOf(pous \o discovered_actions))
       IN  /\ discovered_pous' = pous
           /\ discovered_actions' = discovered_actions \o actions
    /\ pou_index' = pou_index + 1
    /\ UNCHANGED <<gui_pc, document, object_id_map, to_process, success_count, processed,
                   conv, gen, hier, calls_running>>

(* The loop is over: scan_file shows the results. *)
ScanComplete ==
    /\ gui_pc = "scanning"
    /\ object_id_map = {}
    /\ pou_index > Len(document.pous)
    /\ gui_pc' = "scanned"
    /\ UNCHANGED <<document, pou_index, object_id_map, discovered_pous, discovered_actions,
                   to_process, success_count, processed, conv, gen, hier, calls_running>>

NextScan ==
    \/ ScanFile
    \/ ExtractAllPouContent
    \/ ExtractPousFallback
    \/ ScanComplete

SpecScan == Init /\ [][NextScan]_vars

(***************************************************************************)
(* main.py.  Its scan reads no ProjectStructure, and it looks for the text *)
(* of an action in an ST element directly below <action>                   *)
(* (extract_st_from_element, lines 362-383), where the actions of these    *)
(* documents have none: the documents it scans here are those without      *)
(* actions.                                                                *)
(***************************************************************************)
MainDocuments ==
    {doc \in Documents :
        /\ ~doc.structure
        /\ \A k \in 1..Len(doc.pous) : doc.pous[k].actions = <<>>}

(* main.py, lines 353-356 *)
ignore_list ==
    {"TO_STRING", "REPLACE_ALL", "MIN", "MAX", "ABS",
     "NOT", "AND", "OR", "XOR", "MOD", "TRUE", "FALSE"}

(* main.py, extract_sub_pou_calls(st_code), lines 335-360: every name      *)
(* before a "(" that is no keyword of the pattern and not in ignore_list.  *)
extract_sub_pou_calls(executable_content) ==
    {executable_content[k] : k \in {j \in 1..Len(executable_content) :
         CallUpper(executable_content[j]) \notin ignore_list}}

(* main.py, build_pou_entry, lines 304-333 *)
build_pou_entry(name, executable_content) ==
    [name |-> name,
     executable_content |-> executable_content,
     sub_pou_calls |-> extract_sub_pou_calls(executable_content),
     is_internal |-> FALSE]

(* main.py, extract_pou_info, lines 259-302 *)
extract_pou_info(pou_element) ==
    <<build_pou_entry(pou_element.name, pou_element.body)>>

RECURSIVE ExtractedFrom(_, _)
ExtractedFrom(pou_elements, k) ==
    IF k > Len(pou_elements) THEN <<>>
    ELSE extract_pou_info(pou_elements[k]) \o ExtractedFrom(pou_elements, k + 1)

(* main.py, scan_file, lines 208-257 *)
MainScanFile ==
    /\ gui_pc = "idle"
    /\ \E doc \in MainDocuments :
           /\ document' = doc
           /\ discovered_pous' = ExtractedFrom(doc.pous, 1)
    /\ pou_index' = Len(document'.pous) + 1
    /\ gui_pc' = "scanned"
    /\ UNCHANGED <<object_id_map, discovered_actions, to_process, success_count, processed,
                   conv, gen, hier, calls_running>>

(* a.lower() == b.lower(), and a.lower() in b.lower(): no name of a        *)
(* component holds another name that is called.                            *)
SameLower(a, b) == CallUpper(a) = CallUpper(b)
LowerIn(a, b) == SameLower(a, b)

(* main.py, find_pou_by_name, lines 597-618: the index of the entry, 0 for *)
(* None.  No name that is looked up has a "." in it.                       *)
find_pou_by_name(pous, name) ==
    LET direct == FirstTrue([k \in 1..Len(pous) |-> SameLower(pous[k].name, name)], 1)
    IN  IF direct # 0 THEN direct
        ELSE FirstTrue([k \in 1..Len(pous) |-> LowerIn(name, pous[k].name)], 1)

(* the first pass of process_selected_pous, lines 554-570 *)
CollectedFor(pous, selected_indices) ==
    UNION {{pous[k].name} \cup
           {pous[find_pou_by_name(pous, sub_call)].name :
                sub_call \in {c \in pous[k].sub_pou_calls : find_pou_by_name(pous, c) # 0}} :
           k \in selected_indices}

(* main.py, process_selected_pous, lines 541-574: the selection of the     *)
(* list box is not empty.                                                  *)
ProcessSelectedPous ==
    /\ gui_pc \in {"scanned", "complete"}
    /\ \E selected_pous \in SUBSET (1..Len(discovered_pous)) \ {{}} :
           to_process' = CollectedFor(discovered_pous, selected_pous)
    /\ success_count' = 0
    /\ processed' = <<>>
    /\ gui_pc' = "processing"
    /\ UNCHANGED <<document, pou_index, object_id_map, discovered_pous, discovered_actions,
                   conv, gen, hier, calls_running>>

(* What becomes of one component: generate_full_text_mermaid_flowchart or  *)
(* save_file raises, or the file is written.                               *)
Outcomes == {"generate_raised", "save_raised", "saved"}

Taken(name, outcome) == [name |-> name, outcome |-> outcome]

(* The loop without its `try`: the exception leaves process_selected_pous. *)
ProcessPouUnguarded ==
    /\ gui_pc = "processing"
    /\ \E name \in to_process, outcome \in Outcomes :
           /\ processed' = Append(processed, Taken(name, outcome))
           /\ IF outcome = "saved"
              THEN /\ to_process' = to_process \ {name}
                   /\ success_count' = success_count + 1
                   /\ UNCHANGED gui_pc
              ELSE /\ gui_pc' = "scanned"
                   /\ UNCHANGED <<to_process, success_count>>
    /\ UNCHANGED <<document, pou_index, object_id_map, discovered_pous, discovered_actions,
                   conv, gen, hier, calls_running>>

(* One turn of the second loop, lines 575-591; a set is walked in any      *)
(* order.                                                                  *)
ProcessPou ==
    /\ gui_pc = "processing"
    /\ \E name \in to_process, outcome \in Outcomes :
           /\ to_process' = to_process \ {name}
           /\ IF find_pou_by_name(discovered_pous, name) = 0
              THEN /\ processed' = Append(processed, Taken(name, "not_found"))
                   /\ UNCHANGED success_count
              ELSE /\ processed' = Append(processed, Taken(name, outcome))
                   /\ success_count' = IF outcome = "saved" THEN success_count + 1
                                       ELSE success_count
    /\ UNCHANGED <<gui_pc, document, pou_index, object_id_map, discovered_pous,
                   discovered_actions, conv, gen, hier, calls_running>>

(* lines 593-594: the count is reported *)
BatchComplete ==
    /\ gui_pc = "processing"
    /\ to_process = {}
    /\ gui_pc' = "complete"
    /\ UNCHANGED <<document, pou_index, object_id_map, discovered_pous, discovered_actions,
                   to_process, success_count, processed, conv, gen, hier, calls_running>>

NextMain ==
    \/ MainScanFile
    \/ ProcessSelectedPous
    \/ ProcessPou
    \/ BatchComplete

SpecMain == Init /\ [][NextMain]_vars

(***************************************************************************)
(* THE TEXT OF A LABEL.  A text is the sequence of its pieces; a piece is  *)
(* one of the characters " < > & or a run of other characters, and the     *)
(* length of a text is the sum of the lengths of its pieces.  In a text    *)
(* that is longer than a limit the only run of more than one character is  *)
(* a run of the letter a, which can be cut anywhere.                       *)
(***************************************************************************)
MaxText == 3

NodeTextLimit == 150
NodeTextKept == 147
ConnectionTextLimit == 30
ConnectionTextKept == 27

Quote == "\""

RECURSIVE TextLen(_)
TextLen(text) == IF text = <<>> THEN 0 ELSE Len(Head(text)) + TextLen(Tail(text))

(* "a" * n *)
RECURSIVE Run(_)
Run(n) ==
    IF n = 0 THEN ""
    ELSE IF n % 2 = 0 THEN LET half == Run(n \div 2) IN half \o half
    ELSE "a" \o Run(n - 1)

(* text[:n] *)
RECURSIVE Prefix(_, _)
Prefix(text, n) ==
    IF text = <<>> \/ n = 0 THEN <<>>
    ELSE IF Len(Head(text)) > n
         THEN IF Head(text) = Run(Len(Head(text))) THEN <<Run(n)>> ELSE <<>>
    ELSE <<Head(text)>> \o Prefix(Tail(text), n - Len(Head(text)))

(* `if len(text) > limit: text = text[:kept] + "..."` *)
Truncate(text, limit, kept) ==
    IF TextLen(text) > limit THEN Prefix(text, kept) \o <<"...">> ELSE text

(* text.replace(old, new), new a text *)
RECURSIVE Replace(_, _, _)
Replace(text, old, new) ==
    IF text = <<>> THEN <<>>
    ELSE (IF Head(text) = old THEN new ELSE <<Head(text)>>) \o Replace(Tail(text), old, new)

(* the four replacements, in the order of lines 995-998 *)
EscapeForMermaid(text) ==
    LET quot == Replace(text, Quote, <<"&", "quot;">>)
        lt == Replace(quot, "<", <<"&", "lt;">>)
        gt == Replace(lt, ">", <<"&", "gt;">>)
    IN  Replace(gt, "&", <<"&", "amp;">>)

(* f'"{text}"' *)
Quoted(text) == <<Quote>> \o text \o <<Quote>>

(* main.py, lines 987-1004 *)
clean_text_for_mermaid_full(text) ==
    Quoted(Replace(EscapeForMermaid(Truncate(text, NodeTextLimit, NodeTextKept)),
                   NL, <<" | ">>))

(* main.py, lines 1006-1015 *)
clean_text_for_connection(text) ==
    Quoted(EscapeForMermaid(Truncate(text, ConnectionTextLimit, ConnectionTextKept)))

TextPieces == {"a", Quote, "<", ">", "&", "lt;"}
SingleCharacters == {"a", "<", "&"}

ShortTexts == SeqsUpTo(TextPieces, MaxText)

(* texts of the length of a limit, and of one character more *)
LongTexts(limit) ==
    {<<Run(limit - 2)>> \o tail :
        tail \in [1..2 -> SingleCharacters] \cup [1..3 -> SingleCharacters]}

CleanNodeText ==
    /\ label_kind = "none"
    /\ \E text \in ShortTexts \cup LongTexts(NodeTextLimit) :
           /\ label_text' = text
           /\ label_out' = clean_text_for_mermaid_full(text)
    /\ label_kind' = "node"
    /\ UNCHANGED <<hash_seed, generated, mermaid, conv, gui, hier, calls_running>>

CleanConnectionText ==
    /\ label_kind = "none"
    /\ \E text \in ShortTexts \cup LongTexts(ConnectionTextLimit) :
           /\ label_text' = text
           /\ label_out' = clean_text_for_connection(text)
    /\ label_kind' = "connection"
    /\ UNCHANGED <<hash_seed, generated, mermaid, conv, gui, hier, calls_running>>

NextClean ==
    \/ CleanNodeText
    \/ CleanConnectionText

SpecClean == Init /\ [][NextClean]_vars

(***************************************************************************)
(* THE LINES OF A COMPONENT.  generate_full_text_mermaid_flowchart draws   *)
(* the stripped, non-empty lines of executable_content; a line is a text.  *)
(* The tables below answer for the lines of LineTexts, and for the parts   *)
(* that parse_case_structure_full_text cuts out of them, what the code     *)
(* asks of the characters of a line.                                       *)
(***************************************************************************)
MaxLines == 4

CallHelper == <<"helper();">>
CallDoWork == <<"Do_Work();">>
AssignOne == <<"y := 1;">>
AssignTwo == <<"y := 2;">>
IfLine == <<"IF x ", ">", " 0 THEN">>
ElsifLine == <<"ELSIF x ", "<", " 0 THEN">>
ElseLine == <<"ELSE">>
EndIfLine == <<"END_IF">>
CaseLine == <<"CASE s OF">>
OptionLine == <<"1: helper();">>
EndCaseLine == <<"END_CASE">>

LineList ==
    <<CallHelper, CallDoWork, AssignOne, AssignTwo, IfLine, ElsifLine, ElseLine, EndIfLine,
      CaseLine, OptionLine, EndCaseLine>>

LineTexts == {LineList[k] : k \in 1..Len(LineList)}

(* re.match(r'CASE\s+.*\s+OF', line, re.IGNORECASE) *)
IsCaseLine(line) == line = CaseLine
(* re.match(r'IF\s+.*\s+THEN', line, re.IGNORECASE) *)
IsIfLine(line) == line = IfLine
(* re.match(r'ELSIF\s+.*\s+THEN', line, re.IGNORECASE) *)
IsElsifLine(line) == line = ElsifLine
(* re.match(r'ELSE', line, re.IGNORECASE), asked after ELSIF *)
IsElseLine(line) == line = ElseLine
(* re.match(r'END_IF', line, re.IGNORECASE) *)
IsEndIfLine(line) == line = EndIfLine
(* re.match(r'END_CASE', line, re.IGNORECASE) *)
IsEndCaseLine(line) == line = EndCaseLine

(* ':' in line *)
HasColonIn(line) == line \in {OptionLine, AssignOne, AssignTwo}

(* line.split(':', 1), both parts stripped *)
ColonParts(line) ==
    CASE line = OptionLine -> <<<<"1">>, CallHelper>>
      [] line = AssignOne -> <<<<"y">>, <<"= 1;">>>>
      [] line = AssignTwo -> <<<<"y">>, <<"= 2;">>>>

(* '(' in line *)
HasOpenParen(line) == line \in {CallHelper, CallDoWork, OptionLine}

(* the names of the alphabet that are part of a line *)
NamesIn(line) ==
    CASE line \in {CallHelper, OptionLine} -> {"helper"}
      [] line = CallDoWork -> {"Do_Work"}
      [] OTHER -> {}

(* the names that the pattern of main.py line 346 finds in a line *)
CallsWritten(line) ==
    CASE line \in {CallHelper, OptionLine} -> <<"helper">>
      [] line = CallDoWork -> <<"Do_Work">>
      [] OTHER -> <<>>

RECURSIVE CallsOfLines(_)
CallsOfLines(code_lines) ==
    IF code_lines = <<>> THEN <<>>
    ELSE CallsWritten(Head(code_lines)) \o CallsOfLines(Tail(code_lines))

(* line.split('(')[0].strip() *)
BeforeParen(line) ==
    CASE line = CallHelper -> "helper"
      [] line = CallDoWork -> "Do_Work"
      [] line = OptionLine -> "1: helper"

(* branch['line'].replace('ELSIF', '').replace('THEN', '').strip() *)
ElsifCondition(line) == <<"x ", "<", " 0">>

(* hash(stmt) % 10000 under one of two hashes of strings: one that tells   *)
(* all the lines apart, and one under which two of them collide.           *)
HashSeeds == {"apart", "colliding"}

IndexOfLine(line) == CHOOSE k \in 1..Len(LineList) : LineList[k] = line

StrHash(seed, stmt) ==
    IF seed = "colliding" /\ stmt = AssignTwo THEN IndexOfLine(AssignOne)
    ELSE IndexOfLine(stmt)

(* main.py, is_sub_pou_call, lines 752-758 *)
is_sub_pou_call(line, current_pou) ==
    \E sub_call \in current_pou.sub_pou_calls :
        sub_call \in NamesIn(line) /\ HasOpenParen(line)

(* main.py, extract_sub_pou_name, lines 760-771 *)
extract_sub_pou_name(line, pous) ==
    LET found == FirstTrue([k \in 1..Len(pous) |-> pous[k].name \in NamesIn(line)], 1)
    IN  IF found # 0 THEN pous[found].name
        ELSE IF HasOpenParen(line) THEN BeforeParen(line)
        ELSE "line"

(* `style {node} fill:#e1f5fe,stroke:#01579b,stroke-width:2px` *)
Style(id) ==
    [k |-> "style", from |-> None, elabel |-> None, id |-> id, shape |-> "", label |-> None]

(* f"CALL: {sub_pou_name}" *)
CallText(sub_pou_name) == <<"CALL: " \o sub_pou_name>>

(* the node of a call, with its style line *)
CallNode(id, sub_pou_name) ==
    <<Node(id, "rect", clean_text_for_mermaid_full(CallText(sub_pou_name))), Style(id)>>

(* the node of a regular statement *)
StatementNode(id, line) == <<Node(id, "rect", clean_text_for_mermaid_full(line))>>

(***************************************************************************)
(* main.py, parse_if_structure_full_text, lines 863-967.  Lines are        *)
(* counted from 1.                                                         *)
(***************************************************************************)
Branch(type, line, id, stmts) ==
    [type |-> type, line |-> line, node_id |-> id, statements |-> stmts]

HasThen(branches) == \E k \in 1..Len(branches) : branches[k].type = "then"

AddStatement(branches, k, line) ==
    [branches EXCEPT ![k].statements = Append(branches[k].statements, line)]

(* the loop of lines 877-913: the branches, and the index where it stops;  *)
(* current_branch is the index of the ELSIF or ELSE branch last opened.    *)
RECURSIVE CollectBranches(_, _, _, _, _)
CollectBranches(code_lines, j, branches, current_branch, base_id) ==
    IF j > Len(code_lines) \/ IsEndIfLine(code_lines[j])
    THEN [branches |-> branches, stop |-> j]
    ELSE LET line == code_lines[j]
         IN  IF IsElsifLine(line)
             THEN CollectBranches(code_lines, j + 1,
                      Append(branches,
                             Branch("elsif", line, <<"Elsif", base_id, Len(branches)>>, <<>>)),
                      Len(branches) + 1, base_id)
             ELSE IF IsElseLine(line)
             THEN CollectBranches(code_lines, j + 1,
                      Append(branches, Branch("else", line, <<"Else", base_id>>, <<>>)),
                      Len(branches) + 1, base_id)
             ELSE IF current_branch # 0
             THEN CollectBranches(code_lines, j + 1,
                      AddStatement(branches, current_branch, line), current_branch, base_id)
             ELSE IF ~HasThen(branches)
             THEN CollectBranches(code_lines, j + 1,
                      Append(branches, Branch("then", <<"THEN">>, <<"Then", base_id>>,
                                              <<line>>)),
                      current_branch, base_id)
             ELSE CollectBranches(code_lines, j + 1,
                      AddStatement(branches,
                          FirstTrue([k \in 1..Len(branches) |-> branches[k].type = "then"], 1),
                          line),
                      current_branch, base_id)

(* f"Stmt_{base_id}_{hash(stmt) % 10000}" *)
StmtNode(base_id, seed, stmt) == <<"Stmt", base_id, StrHash(seed, stmt)>>

(* the node and the edge from the decision of one branch, lines 919-933 *)
BranchHead(branch, if_node) ==
    IF branch.type = "then"
    THEN [nodes |-> <<Node(branch.node_id, "rect", clean_text_for_mermaid_full(<<"THEN">>))>>,
          connections |-> <<Edge(if_node, <<"Yes">>, branch.node_id)>>]
    ELSE IF branch.type = "elsif"
    THEN [nodes |-> <<Node(branch.node_id, "rect", clean_text_for_mermaid_full(branch.line))>>,
          connections |-> <<Edge(if_node,
                                 clean_text_for_connection(ElsifCondition(branch.line)),
                                 branch.node_id)>>]
    ELSE [nodes |-> <<Node(branch.node_id, "rect", clean_text_for_mermaid_full(<<"ELSE">>))>>,
          connections |-> <<Edge(if_node, <<"No">>, branch.node_id)>>]

(* the statements of one branch, lines 936-952 *)
RECURSIVE BranchStatements(_, _, _, _, _, _, _)
BranchStatements(stmts, j, current, base_id, pou, pous, seed) ==
    IF j > Len(stmts) THEN [nodes |-> <<>>, connections |-> <<>>]
    ELSE IF IsIfLine(stmts[j])
    THEN BranchStatements(stmts, j + 1, current, base_id, pou, pous, seed)
    ELSE LET stmt_node == StmtNode(base_id, seed, stmts[j])
             rest == BranchStatements(stmts, j + 1, stmt_node, base_id, pou, pous, seed)
             drawn == IF is_sub_pou_call(stmts[j], pou)
                      THEN CallNode(stmt_node, extract_sub_pou_name(stmts[j], pous))
                      ELSE StatementNode(stmt_node, stmts[j])
         IN  [nodes |-> drawn \o rest.nodes,
              connections |-> <<Edge(current, None, stmt_node)>> \o rest.connections]

(* main.py, get_last_branch_node_full, lines 969-975 *)
get_last_branch_node_full(branch, base_id, seed) ==
    IF branch.statements # <<>>
    THEN StmtNode(base_id, seed, branch.statements[Len(branch.statements)])
    ELSE branch.node_id

RECURSIVE DrawBranches(_, _, _, _, _, _, _)
DrawBranches(branches, k, if_node, base_id, pou, pous, seed) ==
    IF k > Len(branches) THEN [nodes |-> <<>>, connections |-> <<>>]
    ELSE LET head == BranchHead(branches[k], if_node)
             body == BranchStatements(branches[k].statements, 1, branches[k].node_id,
                                      base_id, pou, pous, seed)
             rest == DrawBranches(branches, k + 1, if_node, base_id, pou, pous, seed)
         IN  [nodes |-> head.nodes \o body.nodes \o rest.nodes,
              connections |-> head.connections \o body.connections \o rest.connections]

parse_if_structure_full_text(code_lines, start_index, parent_node, base_id, pou, pous, seed) ==
    LET if_node == <<"If", base_id>>
        end_node == <<"IfEnd", base_id>>
        collected == CollectBranches(code_lines, start_index + 1, <<>>, 0, base_id)
        branches == collected.branches
        drawn == DrawBranches(branches, 1, if_node, base_id, pou, pous, seed)
    IN  [nodes |-> <<Node(if_node, "diamond",
                          clean_text_for_mermaid_full(code_lines[start_index]))>>
                   \o drawn.nodes
                   \o <<Node(end_node, "rect", <<"Continue...">>)>>,
         connections |-> <<Edge(parent_node, None, if_node)>>
                         \o drawn.connections
                         \o [k \in 1..Len(branches) |->
                                Edge(get_last_branch_node_full(branches[k], base_id, seed),
                                     None, end_node)],
         new_i |-> collected.stop + 1]

(***************************************************************************)
(* main.py, parse_case_structure_full_text, lines 773-861.                 *)
(***************************************************************************)
CaseOption(condition, logic_lines, id) ==
    [condition |-> condition, logic_lines |-> logic_lines, node_id |-> id]

(* the loop of lines 787-814 and line 817; current_option is <<>> for None *)
(* and <<option>> otherwise.                                               *)
RECURSIVE CollectOptions(_, _, _, _, _)
CollectOptions(code_lines, j, case_options, current_option, base_id) ==
    IF j > Len(code_lines) \/ IsEndCaseLine(code_lines[j])
    THEN [options |-> case_options \o current_option, stop |-> j]
    ELSE LET line == code_lines[j]
         IN  IF HasColonIn(line)
             THEN LET saved == case_options \o current_option
                      parts == ColonParts(line)
                  IN  CollectOptions(code_lines, j + 1, saved,
                          <<CaseOption(parts[1], <<parts[2]>>,
                                       <<"CaseOpt", base_id, Len(saved)>>)>>,
                          base_id)
             ELSE IF current_option # <<>>
             THEN CollectOptions(code_lines, j + 1, case_options,
                      <<[current_option[1] EXCEPT
                            !.logic_lines = Append(current_option[1].logic_lines, line)]>>,
                      base_id)
             ELSE CollectOptions(code_lines, j + 1, case_options, current_option, base_id)

(* the lines under one option, lines 831-849; logic_counter counts from 1 *)
RECURSIVE OptionLogic(_, _, _, _, _)
OptionLogic(opt, j, current, pou, pous) ==
    IF j > Len(opt.logic_lines) THEN [nodes |-> <<>>, connections |-> <<>>, last |-> current]
    ELSE LET logic_node_id == opt.node_id \o <<j>>
             rest == OptionLogic(opt, j + 1, logic_node_id, pou, pous)
             drawn == IF is_sub_pou_call(opt.logic_lines[j], pou)
                      THEN CallNode(logic_node_id,
                                    extract_sub_pou_name(opt.logic_lines[j], pous))
                      ELSE StatementNode(logic_node_id, opt.logic_lines[j])
         IN  [nodes |-> drawn \o rest.nodes,
              connections |-> <<Edge(current, None, logic_node_id)>> \o rest.connections,
              last |-> rest.last]

RECURSIVE DrawOptions(_, _, _, _, _)
DrawOptions(case_options, k, case_node, pou, pous) ==
    IF k > Len(case_options) THEN [nodes |-> <<>>, connections |-> <<>>, last |-> <<>>]
    ELSE LET opt == case_options[k]
             logic == OptionLogic(opt, 1, opt.node_id, pou, pous)
             rest == DrawOptions(case_options, k + 1, case_node, pou, pous)
         IN  [nodes |-> <<Node(opt.node_id, "rect",
                               clean_text_for_mermaid_full(opt.condition))>>
                        \o logic.nodes \o rest.nodes,
              connections |-> <<Edge(case_node, None, opt.node_id)>>
                              \o logic.connections \o rest.connections,
              last |-> <<logic.last>> \o rest.last]

parse_case_structure_full_text(code_lines, start_index, parent_node, base_id, pou, pous) ==
    LET case_node == <<"Case", base_id>>
        end_node == <<"CaseEnd", base_id>>
        collected == CollectOptions(code_lines, start_index + 1, <<>>, <<>>, base_id)
        drawn == DrawOptions(collected.options, 1, case_node, pou, pous)
    IN  [nodes |-> <<Node(case_node, "rect",
                          clean_text_for_mermaid_full(code_lines[start_index]))>>
                   \o drawn.nodes
                   \o <<Node(end_node, "rect", <<"Continue...">>)>>,
         connections |-> <<Edge(parent_node, None, case_node)>>
                         \o drawn.connections
                         \o [k \in 1..Len(drawn.last) |-> Edge(drawn.last[k], None, end_node)],
         new_i |-> collected.stop + 1]

(***************************************************************************)
(* main.py, parse_lines_with_full_text, lines 687-750: the loop from line  *)
(* j on, with the nodes and connections written so far.  After a CASE or   *)
(* an IF, `i = new_i` is followed by the `i += 1` of line 748.             *)
(***************************************************************************)
RECURSIVE ParseLinesFrom(_, _, _, _, _, _, _, _)
ParseLinesFrom(code_lines, j, nodes, connections, current_node, node_counter, pou, ctx) ==
    IF j > Len(code_lines)
    THEN [nodes |-> nodes, connections |-> connections, current_node |-> current_node]
    ELSE LET line == code_lines[j]
             counter == node_counter + 1
             node == <<"N", counter>>
             plain == ParseLinesFrom(code_lines, j + 1,
                          nodes \o StatementNode(node, line),
                          Append(connections, Edge(current_node, None, node)),
                          node, counter, pou, ctx)
         IN  IF IsCaseLine(line)
             THEN LET case == parse_case_structure_full_text(code_lines, j, current_node,
                                                             counter, pou, ctx.pous)
                  IN  ParseLinesFrom(code_lines, case.new_i + 1, nodes \o case.nodes,
                          connections \o case.connections, <<"CaseEnd", counter>>,
                          counter + 20, pou, ctx)
             ELSE IF IsIfLine(line)
             THEN LET if == parse_if_structure_full_text(code_lines, j, current_node,
                                                         counter, pou, ctx.pous, ctx.seed)
                  IN  ParseLinesFrom(code_lines, if.new_i + 1, nodes \o if.nodes,
                          connections \o if.connections, <<"IfEnd", counter>>,
                          counter + 20, pou, ctx)
             ELSE IF is_sub_pou_call(line, pou)
             THEN LET sub_call_node == <<"SubCall", counter>>
                      sub_pou_name == extract_sub_pou_name(line, ctx.pous)
                  IN  IF find_pou_by_name(ctx.pous, sub_pou_name) # 0
                      THEN ParseLinesFrom(code_lines, j + 1,
                               nodes \o CallNode(sub_call_node, sub_pou_name),
                               Append(connections, Edge(current_node, None, sub_call_node)),
                               sub_call_node, counter, pou, ctx)
                      ELSE plain
             ELSE plain

parse_lines_with_full_text(code_lines, start_node, pou, ctx) ==
    ParseLinesFrom(code_lines, 1, <<>>, <<>>, start_node, 0, pou, ctx)

(* main.py, get_last_node_id, lines 977-985: the last word before the      *)
(* `-->` of the last connection, which for a connection without a label    *)
(* is the node it leaves.                                                  *)
get_last_node_id(connections) ==
    LET last_line == connections[Len(connections)]
    IN  IF last_line.elabel = None THEN last_line.from ELSE last_line.elabel

(* main.py, generate_full_text_mermaid_flowchart, lines 620-646, without   *)
(* the comment line and the `flowchart TD` line.  ctx is what the object   *)
(* holds: the discovered components and the hash of the interpreter.       *)
generate_full_text_mermaid_flowchart(pou, ctx) ==
    LET parsed == parse_lines_with_full_text(pou.executable_content, Start, pou, ctx)
        last_node == get_last_node_id(parsed.connections)
    IN  <<Node(Start, "round", <<"Start: ", pou.name>>)>>
        \o parsed.nodes
        \o parsed.connections
        \o <<Node(End, "round", <<"End">>)>>
        \o (IF parsed.connections # <<>> /\ last_node # Start
            THEN <<Edge(last_node, None, End)>>
            ELSE <<>>)

(* The documents that are drawn: POU Main with the lines of its text, and  *)
(* after it, or not, a POU helper.                                         *)
DrawnBodies == SeqsUpTo(LineTexts, MaxLines) \ {<<>>}

PouWithLines(name, code_lines) ==
    [name |-> name,
     executable_content |-> code_lines,
     sub_pou_calls |-> extract_sub_pou_calls(CallsOfLines(code_lines)),
     is_internal |-> FALSE]

(* scan_file of main.py on such a document, in a fresh interpreter *)
ScanForDrawing ==
    /\ gui_pc = "idle"
    /\ \E body \in DrawnBodies, with_helper \in BOOLEAN :
           discovered_pous' = <<PouWithLines("Main", body)>>
                              \o (IF with_helper THEN <<PouWithLines("helper", <<AssignOne>>)>>
                                  ELSE <<>>)
    /\ \E seed \in HashSeeds : hash_seed' = seed
    /\ gui_pc' = "scanned"
    /\ UNCHANGED <<document, pou_index, object_id_map, discovered_actions, to_process,
                   success_count, processed, label_kind, label_text, label_out, generated,
                   mermaid, conv, hier, calls_running>>

(* process_selected_pous draws a component (main.py, line 582) *)
GenerateFlowchart ==
    /\ gui_pc = "scanned"
    /\ generated = NoComponent
    /\ \E k \in 1..Len(discovered_pous) :
           /\ generated' = discovered_pous[k]
           /\ mermaid' = generate_full_text_mermaid_flowchart(
                             discovered_pous[k], [pous |-> discovered_pous, seed |-> hash_seed])
    /\ UNCHANGED <<label_kind, label_text, label_out, hash_seed, gui, conv, hier, calls_running>>

NextGen ==
    \/ ScanForDrawing
    \/ GenerateFlowchart

SpecGen == Init /\ [][NextGen]_vars

(***************************************************************************)
(* PROPERTIES.  `Called` holds from the moment process_code has parsed a   *)
(* text; `cleaned` is the text the parser was given.                       *)
(***************************************************************************)
Called == pc \in {"build", "done"} /\ st_code.type = "str" /\ ~IsEmptyCode(st_code)
Cleaned == _clean_st_code(st_code.text)

(* The closer that balances an opener: scanning on from `from` with        *)
(* `depth` openers open, the index of the closing word that brings the     *)
(* depth to zero; 0 when the text ends first.                              *)
RECURSIVE Balancing(_, _, _, _, _)
Balancing(t, open, close, from, depth) ==
    IF from > Len(t) THEN 0
    ELSE IF t[from] = open THEN Balancing(t, open, close, from + 1, depth + 1)
    ELSE IF t[from] = close
         THEN IF depth = 1 THEN from ELSE Balancing(t, open, close, from + 1, depth - 1)
    ELSE Balancing(t, open, close, from + 1, depth)

FirstIF(t) == FirstTrue([j \in 1..Len(t) |-> t[j] = "IF"], 1)

(* an IF with its END_IF, and another IF between the two *)
HasNestedIF(t) ==
    LET o == FirstIF(t)
        b == IF o = 0 THEN 0 ELSE Balancing(t, "IF", "END_IF", o + 1, 1)
    IN  b # 0 /\ \E j \in (o + 1)..(b - 1) : t[j] = "IF"

(* C1: when an IF ... END_IF is nested in the body of another IF, the span *)
(* found for the outer IF starts at the outer IF and ends at the END_IF    *)
(* that balances it, not at the END_IF of the inner IF.                    *)
OuterIfEndsAtItsOwnEndIf ==
    Called /\ HasNestedIF(Cleaned)
        => LET next_control == _find_next_control_structure(Cleaned)
               o == FirstIF(Cleaned)
           IN  /\ next_control.found
               /\ next_control.type = "IF"
               /\ next_control.start_pos = o
               /\ next_control.end_pos = Balancing(Cleaned, "IF", "END_IF", o + 1, 1)

(* an IF or a CASE that no END_IF / END_CASE balances *)
HasUnterminated(t) ==
    \E j \in 1..Len(t) :
        \/ t[j] = "IF" /\ Balancing(t, "IF", "END_IF", j + 1, 1) = 0
        \/ t[j] = "CASE" /\ Balancing(t, "CASE", "END_CASE", j + 1, 1) = 0

(* C2: a text with an IF or CASE opener that no END_IF / END_CASE closes   *)
(* is answered with the error flowchart Start -> Error -> End.             *)
UnterminatedOpenerIsAnError ==
    pc = "done" /\ Called /\ HasUnterminated(Cleaned) => IsErrorFlowchart(result)

(* The texts IF c1 THEN A ELSIF c2 THEN B [ELSE C] END_IF with bodies of   *)
(* assignments, and the statement list the ELSIF rule asks for.            *)
Assignments(n) == [j \in 1..n |-> "assign"]
PlainBody(n) == [j \in 1..n |-> Plain]
ElsifPrograms ==
    {[frags |-> <<"IF">> \o Assignments(a) \o <<"ELSIF">> \o Assignments(b)
                    \o (IF c = -1 THEN <<>> ELSE <<"ELSE">> \o Assignments(c))
                    \o <<"END_IF">>,
      expected |-> <<IfStmt(<<"x>0">>, PlainBody(a),
                            <<IfStmt(<<"x>0">>, PlainBody(b),
                                     PlainBody(IF c = -1 THEN 0 ELSE c))>>)>>] :
         a \in 0..1, b \in 0..1, c \in -1..1}

(* C3: IF c1 THEN A ELSIF c2 THEN B [ELSE C] END_IF is parsed into one IF  *)
(* whose else_statements are exactly one nested IF with condition c2,      *)
(* then-body B and else-body C.                                            *)
ElsifIsANestedIf ==
    \A p \in ElsifPrograms :
        Called /\ st_code.text \in {OnLines(p.frags), OnOneLine(p.frags)}
            => statements = p.expected

(***************************************************************************)
(* The graph a flowchart draws.  A line declares a node when it gives the  *)
(* node its label; the nodes are the ids that are declared or that an edge *)
(* starts from.                                                            *)
(***************************************************************************)
EdgeLines(flowchart) == SelectSeq(flowchart, LAMBDA l : l.k = "edge")
Edges(flowchart) ==
    {<<flowchart[j].from, flowchart[j].id>> : j \in {j \in 1..Len(flowchart) : flowchart[j].k = "edge"}}
Declarations(flowchart) ==
    {j \in 1..Len(flowchart) :
         flowchart[j].k = "node" \/ (flowchart[j].k = "edge" /\ flowchart[j].shape # "")}
NodeIds(flowchart) ==
    {flowchart[j].id : j \in Declarations(flowchart)} \cup {e[1] : e \in Edges(flowchart)}
DecisionNodes(flowchart) ==
    {j \in 1..Len(flowchart) : flowchart[j].k = "node" /\ flowchart[j].shape = "diamond"}

RECURSIVE ReachSet(_, _)
ReachSet(E, S) ==
    LET T == S \cup {e[2] : e \in {e \in E : e[1] \in S}}
    IN  IF T = S THEN S ELSE ReachSet(E, T)

(* C4: from every IF, CASE and SEL decision node each outgoing branch      *)
(* reaches the merge node of that decision, the merge node leads on to the *)
(* next node, and an IF has its "THEN branch" and "ELSE branch"            *)
(* placeholder nodes whatever its bodies hold.                             *)
BranchesMeetAtOneMerge ==
    pc = "done" =>
        \A j \in DecisionNodes(result) :
            LET d == result[j].id
                merge == <<"Merge", d[2]>>
                E == Edges(result)
            IN  /\ \A e \in E : e[1] = d => merge \in ReachSet(E, {e[2]})
                /\ \E e \in E : e[1] = merge
                /\ d[1] = "If" =>
                       /\ \E l \in 1..Len(result) :
                              result[l] = EdgeDecl(d, True, <<"ThenStart", d[2]>>,
                                                   <<"THEN", "branch">>)
                       /\ \E l \in 1..Len(result) :
                              result[l] = EdgeDecl(d, False, <<"ElseStart", d[2]>>,
                                                   <<"ELSE", "branch">>)

(* C5: in a flowchart of process_code every edge ends at a node of the     *)
(* graph or at End, and every node but Start has an edge coming in.        *)
NoDanglingEdge ==
    pc = "done" =>
        LET E == Edges(result)
            N == NodeIds(result)
        IN  /\ \A e \in E : e[2] \in N \cup {End}
            /\ \A n \in N \ {Start} : \E e \in E : e[2] = n

(* C6: no two declarations of one flowchart give the same node id. *)
NodeIdsAreDistinct ==
    pc = "done" =>
        \A j, k \in Declarations(result) : j # k => result[j].id # result[k].id

BranchLabel(b) == IF b = "branch1" THEN <<"1">> ELSE <<"2">>

(* C8: a CASE with k branches `label: action;`, one a line or all on one   *)
(* line, gives one decision node with k outgoing edges that carry the k    *)
(* labels in order, each to an action node of its own, and every action    *)
(* node has an edge to the merge node "Continue after CASE".               *)
CaseBranchesEachGetAnEdge ==
    \A k \in 0..MaxFrags : \A bs \in [1..k -> {"branch1", "branch2"}] :
        LET frags == <<"CASE">> \o bs \o <<"END_CASE">>
            out == SelectSeq(result, LAMBDA l : l.k = "edge" /\ l.from = <<"Case", 1>>)
        IN  pc = "done" /\ Called /\ st_code.text \in {OnLines(frags), OnOneLine(frags)}
                => /\ {result[j].id : j \in DecisionNodes(result)} = {<<"Case", 1>>}
                   /\ Len(out) = k
                   /\ \A j \in 1..Len(out) : j <= k => out[j].elabel = BranchLabel(bs[j])
                   /\ \A j, j2 \in 1..Len(out) : j # j2 => out[j].id # out[j2].id
                   /\ \A j \in 1..Len(out) : <<out[j].id, <<"Merge", 1>>>> \in Edges(result)
                   /\ \E l \in 1..Len(result) :
                          result[l] = Node(<<"Merge", 1>>, "rect", <<"Continue", "after", "CASE">>)

PlainStatements == {"assign", "call", "strlit"}

(* C9: n >= 1 plain statements, each ended by `;`, give the path           *)
(* Start -> Action1 -> ... -> Actionn -> End: one rectangle a statement,   *)
(* each with the one edge from its predecessor.                            *)
PlainStatementsMakeAPath ==
    \A n \in 1..MaxFrags : \A fs \in [1..n -> PlainStatements] :
        LET OnPath(k) == IF k = 0 THEN Start ELSE IF k = n + 1 THEN End ELSE <<"Action", k>>
        IN  pc = "done" /\ Called /\ st_code.text \in {OnLines(fs), OnOneLine(fs)}
                => /\ {result[j].id : j \in Declarations(result)} = {OnPath(k) : k \in 0..(n + 1)}
                   /\ Cardinality(Declarations(result)) = n + 2
                   /\ \A j \in Declarations(result) : result[j].shape = "rect"
                   /\ Edges(result) = {<<OnPath(k - 1), OnPath(k)>> : k \in 1..(n + 1)}
                   /\ Len(EdgeLines(result)) = n + 1

WitnessBranchesMeet ==
    /\ pc = "done"
    /\ statements = <<IfStmt(<<"x>0">>, <<IfStmt(<<"x>0">>, <<>>, <<>>), Plain>>, <<>>), Plain>>
    /\ Cardinality(DecisionNodes(result)) = 2
    /\ <<<<"Merge", 100>>, <<"Then", 201>>>> \in Edges(result)
    /\ <<<<"Merge", 1>>, <<"Action", 2>>>> \in Edges(result)

(* C7: a call of process_code returns what an earlier call with the same   *)
(* st_code and pou_name returned, whatever was converted in between and    *)
(* whatever namespace the object has been given.                           *)
SameCallSameFlowchart ==
    pc = "done" /\ memo.noted /\ memo.st_code = st_code /\ memo.pou_name = pou_name
        => result = memo.result

WitnessSameCall ==
    /\ pc = "done" /\ memo.noted
    /\ memo.st_code = st_code /\ memo.pou_name = pou_name
    /\ memo.failure_since
    /\ memo.namespace # namespace
    /\ DecisionNodes(result) # {}

(* C10: process_code always returns a flowchart, a drawing from Start to   *)
(* End, and never leaves by an exception; a call that fails inside returns *)
(* the error flowchart Start -> Error -> End with the message.             *)
IsFlowchart(flowchart) ==
    /\ flowchart # <<>>
    /\ \E j \in 1..Len(flowchart) : flowchart[j].k = "node" /\ flowchart[j].id = Start
    /\ flowchart[Len(flowchart)].k = "edge" /\ flowchart[Len(flowchart)].id = End

Fails(code) == ~IsEmptyCode(code) /\ code.type # "str"

NoExceptionLeaves ==
    /\ pc \in {"idle", "build", "done"}
    /\ pc = "done" =>
           /\ IsFlowchart(result)
           /\ Fails(st_code) =>
                  /\ Edges(result) = {<<Start, <<"Error">>>>, <<<<"Error">>, End>>}
                  /\ \E j \in 1..Len(result) :
                         result[j].id = <<"Error">> /\ result[j].label = <<"Error:", TypeErrorMessage>>

WitnessErrorFlowchart ==
    pc = "done" /\ Fails(st_code) /\ IsErrorFlowchart(result)

(* C11: for a missing source, a source of no characters and a source of    *)
(* blanks and line breaks only (which is also every source that is empty   *)
(* after cleaning) process_code returns the placeholder: its one edge is   *)
(* Start --> End and End is annotated "(No Code)"; it is not the error     *)
(* flowchart, so nothing was raised on the way.                            *)
IsBlankInput(code) ==
    \/ code.type = "NoneType"
    \/ \A j \in 1..Len(code.text) : code.text[j] \in {SP, NL}
    \/ code.type = "str" /\ _clean_st_code(code.text) = <<>>

EmptyInputGivesPlaceholder ==
    pc = "done" /\ IsBlankInput(st_code)
        => /\ Edges(result) = {<<Start, End>>}
           /\ Len(EdgeLines(result)) = 1
           /\ \E j \in 1..Len(result) :
                  /\ result[j].id = End
                  /\ result[j].label = <<"End:", pou_name, "(No", "Code)">>
           /\ ~IsErrorFlowchart(result)

WitnessBlankSource ==
    /\ pc = "done"
    /\ st_code = [type |-> "str", text |-> <<SP, NL, SP>>]
    /\ result = _create_empty_flowchart(pou_name)

(* C12: when the builder has consumed the statement list, one edge leads   *)
(* into End; it comes from the cursor (previous_node) when a statement has *)
(* moved the cursor, and when the cursor is still Start no edge            *)
(* Start --> End is drawn.                                                 *)
EdgesInto(flowchart, id) == SelectSeq(EdgeLines(flowchart), LAMBDA l : l.id = id)

EndEdgeComesFromTheCursor ==
    pc = "done"
        => /\ Len(EdgesInto(result, End)) = 1
           /\ previous_node # Start => EdgesInto(result, End)[1].from = previous_node
           /\ previous_node = Start => <<Start, End>> \notin Edges(result)

(***************************************************************************)
(* Statements `T := SEL(...)`.  SelArguments gives the positional          *)
(* arguments of the call as they are written, an argument that is itself a *)
(* call included; WrittenWith(fam) says that the source in hand is written *)
(* with the fragments of one family.                                       *)
(***************************************************************************)
SelArguments(w) ==
    CASE w = "T:=SEL(c,a,b)" -> <<"c", "a", "b">>
      [] w = "T:=SEL(c,a,F(b))" -> <<"c", "a", "F(b)">>
      [] w = "T:=SEL(c,a,b,d)" -> <<"c", "a", "b", "d">>
      [] w = "T:=SEL(c,a)" -> <<"c", "a">>
      [] OTHER -> <<>>

WordsOf(fam) == UNION {{Fragment(f)[j] : j \in 1..Len(Fragment(f))} : f \in fam}
WrittenWith(fam) ==
    /\ pc = "done" /\ Called
    /\ \A j \in 1..Len(st_code.text) : st_code.text[j] \in WordsOf(fam) \cup {SP, NL}

IsSelStatement(stmt) == Len(stmt.content) = 1 /\ SelArguments(stmt.content[1]) # <<>>
EdgesFrom(flowchart, id) == SelectSeq(EdgeLines(flowchart), LAMBDA l : l.from = id)
NodesNumbered(flowchart, k) ==
    {j \in Declarations(flowchart) : Len(flowchart[j].id) = 2 /\ flowchart[j].id[2] = k}

(* C13: a statement T := SEL(c, a, b) is drawn as one decision labelled    *)
(* with c alone, with exactly two edges out of it: True to a node          *)
(* `T := b`, False to a node `T := a`; both nodes lead to one merge node.  *)
SelIsATwoWayDecision ==
    WrittenWith(SelFamily) =>
        \A k \in 1..Len(statements) :
            LET args == SelArguments(statements[k].content[1])
                d == <<"SEL", k>>
                out == EdgesFrom(result, d)
                Labelled(id, label) ==
                    \E j \in Declarations(result) : result[j].id = id /\ result[j].label = label
            IN  IsSelStatement(statements[k]) /\ Len(args) = 3
                    => /\ \E j \in DecisionNodes(result) :
                              result[j].id = d /\ result[j].label = <<"SEL:", args[1]>>
                       /\ Len(out) = 2
                       /\ \E t, f \in 1..2 :
                              /\ out[t].elabel = True /\ out[f].elabel = False
                              /\ Labelled(out[t].id, <<"T", ":=", args[3]>>)
                              /\ Labelled(out[f].id, <<"T", ":=", args[2]>>)
                              /\ \E m \in NodeIds(result) :
                                     {<<out[t].id, m>>, <<out[f].id, m>>} \subseteq Edges(result)

(* C14: a SEL statement whose call has fewer or more than three arguments  *)
(* is drawn as one rectangle holding the statement, and as no decision.    *)
OddSelIsOneRectangle ==
    WrittenWith(SelFamily) =>
        \A k \in 1..Len(statements) :
            IsSelStatement(statements[k]) /\ statements[k].type = "SEL_DECISION"
                /\ Len(SelArguments(statements[k].content[1])) # 3
                => /\ Cardinality(NodesNumbered(result, k)) = 1
                   /\ \A j \in NodesNumbered(result, k) :
                          result[j] = Node(<<"Action", k>>, "rect", statements[k].content)
                   /\ <<"SEL", k>> \notin NodeIds(result)

(* C15: a plain statement that contains `:=` is an ASSIGNMENT, or, when    *)
(* its right side is a SEL call with exactly three arguments, a            *)
(* SEL_DECISION; it is never anything else, and it is a SEL_DECISION only  *)
(* with three arguments.                                                   *)
ContainsAssign(stmt) == \E j \in 1..Len(stmt.content) : HasAssign(stmt.content[j])
HasThreeArgumentSel(stmt) ==
    IsSelStatement(stmt) /\ Len(SelArguments(stmt.content[1])) = 3

AssignmentsAreClassified ==
    WrittenWith(SelFamily \cup SemiFamily) =>
        \A k \in 1..Len(statements) :
            ContainsAssign(statements[k])
                => statements[k].type =
                       IF HasThreeArgumentSel(statements[k]) THEN "SEL_DECISION" ELSE "ASSIGNMENT"

(***************************************************************************)
(* The `;` of a source.  Semis counts the `;` of a word, InnerSemis those  *)
(* between the word's own () or []; Level is the parenthesis depth of the  *)
(* source at a word, counted from the start of the source.  A `;` that     *)
(* splits is dropped from the statement texts and any other `;` stays in   *)
(* one of them, so the `;` that did not split are those of the statements. *)
(***************************************************************************)
Semis(w) ==
    CASE w \in {"s:='a;b';", "='a;b';", "F(a;b);", "m[1;2]:=0;"} -> 2
      [] w \in {"y:=1;", "A();", "B();", "=1;", "1;", "=0;", "b';", "s:='a;b'", "='a;b'",
                "F(a;b)", "m[1;2]:=0", "m[1;2]", "T:=SEL(c,a,b);", "T:=SEL(c,a);",
                "T:=SEL(c,a,F(b));", "T:=SEL(c,a,b,d);", "=SEL(c,a,b);", "=SEL(c,a);",
                "=SEL(c,a,F(b));", "=SEL(c,a,b,d);"} -> 1
      [] OTHER -> 0
InnerSemis(w) ==
    IF w \in {"F(a;b);", "F(a;b)", "m[1;2]:=0;", "m[1;2]:=0", "m[1;2]"} THEN 1 ELSE 0

RECURSIVE Level(_, _)
Level(t, j) == IF j = 1 THEN 0 ELSE Level(t, j - 1) + ParenDelta(t[j - 1])

RECURSIVE SumSeq(_)
SumSeq(ns) == IF ns = <<>> THEN 0 ELSE Head(ns) + SumSeq(Tail(ns))

ShelteredSemis(t) ==
    SumSeq([j \in 1..Len(t) |-> IF Level(t, j) = 0 THEN InnerSemis(t[j]) ELSE Semis(t[j])])
UnsplitSemis(stmts) ==
    SumSeq([k \in 1..Len(stmts) |->
                SumSeq([j \in 1..Len(stmts[k].content) |-> Semis(stmts[k].content[j])])])

(* C16: the `;` of a source that do not end a statement are exactly those  *)
(* inside (...) or [...]: a `;` at depth zero always splits, one at a      *)
(* deeper place never does.                                                *)
SemicolonSplitsAtDepthZero ==
    WrittenWith(SemiFamily \cup CommentFamily)
        => UnsplitSemis(statements) = ShelteredSemis(st_code.text)

(* C17: a plain statement written on several lines, its `;` on the last,   *)
(* is parsed as one statement whose text is the lines joined by blanks.    *)
SeveralLinesOneStatement ==
    \A n \in 1..(MaxFrags - 1) : \A fs \in [1..n -> {"lhs", "lhsIF"}] :
        pc = "done" /\ Called /\ st_code.text = OnLines(fs \o <<"rhs">>)
            => /\ Len(statements) = 1
               /\ statements[1].content = OnOneLine(fs) \o <<"1">>

(***************************************************************************)
(* The scan of a document.  The catalogue is the names of the components   *)
(* the scan has discovered, POUs and actions.                              *)
(***************************************************************************)
Catalogue == NamesOf(discovered_pous \o discovered_actions)

(* C18: when the scan of a document is over, the sub_pou_calls of every    *)
(* component are the calls of its text resolved against the catalogue of   *)
(* all the components of the document: no resolution has read a catalogue  *)
(* that a later discovery has changed, so the order of discovery does not  *)
(* show in any sub_pou_calls.                                              *)
ResolvedAgainstTheWholeCatalogue ==
    gui_pc = "scanned" =>
        /\ \A k \in 1..Len(discovered_pous) :
               discovered_pous[k].sub_pou_calls =
                   extract_structured_sub_pou_calls(discovered_pous[k].executable_content,
                                                    object_id_map)
        /\ \A k \in 1..Len(discovered_actions) :
               discovered_actions[k].sub_pou_calls =
                   extract_sub_pou_calls_with_objectids(
                       discovered_actions[k].executable_content, Catalogue)

(* C20: the sub-calls recorded for a component never hold the name of the  *)
(* component itself, whatever its text calls.                              *)
NoComponentCallsItself ==
    gui_pc # "idle" =>
        \A k \in 1..Len(discovered_pous) :
            discovered_pous[k].name \notin discovered_pous[k].sub_pou_calls

(* how many components of the batch have their file *)
Saved == Cardinality({k \in 1..Len(processed) : processed[k].outcome = "saved"})

(* C19: an exception while one component is generated or saved does not    *)
(* end the batch.  The loop of process_selected_pous is left only when no  *)
(* collected component remains to be taken, and the count it reports is    *)
(* the number of components generated and saved without an exception.      *)
BatchOutlivesFailures ==
    /\ gui_pc # "processing" => to_process = {}
    /\ success_count = Saved

(* a batch is complete whose first component failed to be saved and whose  *)
(* second one has its file                                                 *)
WitnessBatchAfterFailure ==
    /\ gui_pc = "complete"
    /\ Len(processed) = 2
    /\ processed[1].outcome = "save_raised"
    /\ processed[2].outcome = "saved"
    /\ success_count = 1

(* C21: the names that sub-call extraction returns for an action are names *)
(* of the set of known components it was given, which is not empty, and    *)
(* none of them is a keyword or a built-in: the naming convention lets no  *)
(* other name in.                                                          *)
OnlyKnownNamesAreSubCalls ==
    [][\A k \in (Len(discovered_actions) + 1)..Len(discovered_actions') :
           LET all_known_pous == NamesOf(discovered_pous' \o discovered_actions)
           IN  /\ all_known_pous # {}
               /\ \A call_name \in discovered_actions'[k].sub_pou_calls :
                      /\ call_name \in all_known_pous
                      /\ CallUpper(call_name) \notin built_in_functions]_vars

(***************************************************************************)
(* The text of a label.                                                    *)
(***************************************************************************)
IsSpecial(piece) == piece \in {Quote, "<", ">", "&"}

Entity(piece) ==
    CASE piece = Quote -> <<"&", "quot;">>
      [] piece = "<" -> <<"&", "lt;">>
      [] piece = ">" -> <<"&", "gt;">>
      [] piece = "&" -> <<"&", "amp;">>

(* every special character of a text replaced by its entity *)
RECURSIVE EscapedOnce(_)
EscapedOnce(text) ==
    IF text = <<>> THEN <<>>
    ELSE (IF IsSpecial(Head(text)) THEN Entity(Head(text)) ELSE <<Head(text)>>)
         \o EscapedOnce(Tail(text))

(* every entity of a text replaced by its character *)
RECURSIVE Unescaped(_)
Unescaped(text) ==
    IF text = <<>> THEN <<>>
    ELSE IF Len(text) >= 2 /\ text[1] = "&"
            /\ \E piece \in {Quote, "<", ">", "&"} : Entity(piece)[2] = text[2]
         THEN <<CHOOSE piece \in {Quote, "<", ">", "&"} : Entity(piece)[2] = text[2]>>
              \o Unescaped(SubSeq(text, 3, Len(text)))
         ELSE <<Head(text)>> \o Unescaped(Tail(text))

(* the text that is escaped: the argument, cut at the limit of its kind *)
CutLabelText ==
    IF label_kind = "node" THEN Truncate(label_text, NodeTextLimit, NodeTextKept)
    ELSE Truncate(label_text, ConnectionTextLimit, ConnectionTextKept)

(* C23: a label is its text, cut at the limit, with each of the characters *)
(* " < > & replaced once by its entity, between two quotes: `<` gives      *)
(* `&lt;`, and the label unescaped once is the cut text again.             *)
EachCharacterEscapedOnce ==
    label_kind # "none" =>
        /\ label_out = Quoted(EscapedOnce(CutLabelText))
        /\ Unescaped(SubSeq(label_out, 2, Len(label_out) - 1)) = CutLabelText

(***************************************************************************)
(* The drawing of a component by main.py.                                  *)
(***************************************************************************)
Drawn == generated.name = "Main"

(* a line that is one call `Name(...);` *)
IsCallStatement(line) == line \in {CallHelper, CallDoWork}

NodesOf(flowchart) == SelectSeq(flowchart, LAMBDA l : l.k = "node")

HasStyle(flowchart, id) ==
    \E k \in 1..Len(flowchart) : flowchart[k].k = "style" /\ flowchart[k].id = id

(* a node labelled `CALL: Name` that carries the style of a call *)
HasCallNode(flowchart, name) ==
    \E k \in 1..Len(flowchart) :
        /\ flowchart[k].k = "node"
        /\ flowchart[k].label = Quoted(<<"CALL: " \o name>>)
        /\ HasStyle(flowchart, flowchart[k].id)

(* a node labelled with the statement itself *)
HasPlainNode(flowchart, line) ==
    \E k \in 1..Len(flowchart) :
        /\ flowchart[k].k = "node"
        /\ flowchart[k].label = Quoted(line)

(* C22: a call statement whose name is the name of a known component is    *)
(* drawn as a node `CALL: Name` with the style of a call and not as a      *)
(* statement node; a call of any other name is drawn as a statement node.  *)
CallsAreDrawnAsCalls ==
    Drawn =>
        \A j \in 1..Len(generated.executable_content) :
            LET line == generated.executable_content[j]
            IN  IsCallStatement(line) =>
                    IF BeforeParen(line) \in NamesOf(discovered_pous)
                    THEN /\ HasCallNode(mermaid, BeforeParen(line))
                         /\ ~HasPlainNode(mermaid, line)
                    ELSE /\ HasPlainNode(mermaid, line)
                         /\ ~HasCallNode(mermaid, BeforeParen(line))

(* what the object holds when a component is drawn *)
DrawingContext == [pous |-> discovered_pous, seed |-> hash_seed]

(* the node that line parsing has created last *)
FinalCursor ==
    parse_lines_with_full_text(generated.executable_content, Start, generated,
                               DrawingContext).current_node

(* C26: the flowchart of a component with at least one line has one edge   *)
(* into End, and that edge leaves the final cursor, the node that line     *)
(* parsing has created last.                                               *)
EndHangsOnTheFinalCursor ==
    Drawn => EdgesInto(mermaid, End) = <<Edge(FinalCursor, None, End)>>

(* C27: the statements in the branches of an IF have a node each, no two   *)
(* of them under the same id, and every edge into the IfEnd node of an IF  *)
(* leaves a node that the flowchart declares.                              *)
BranchStatementsHaveTheirOwnNodes ==
    Drawn =>
        LET declared == NodesOf(mermaid)
        IN  /\ \A a, b \in 1..Len(declared) :
                   (a # b /\ declared[a].id[1] = "Stmt") => declared[a].id # declared[b].id
            /\ \A k \in 1..Len(mermaid) :
                   (mermaid[k].k = "edge" /\ mermaid[k].id[1] = "IfEnd") =>
                       \E a \in 1..Len(declared) : declared[a].id = mermaid[k].from

(* C24: every CASE_BRANCH that the parser hands to the builder has an      *)
(* action that is not empty: a branch with nothing after its `:` has the   *)
(* action "NA".                                                            *)
NoBranchWithoutAction ==
    pc = "build" =>
        \A k \in 1..Len(statements) :
            statements[k].type = "CASE_BRANCH" => statements[k].action # <<>>

(* the END_* markers, and a statement that starts with one of them *)
EndMarkers == {"END_IF", "END_CASE", "END_FOR", "END_WHILE", "END_REPEAT"}
IsEndMarker(statement) ==
    LET s == Strip(statement) IN s # <<>> /\ s[1] \in EndMarkers

(* C28: every statement that starts with END_IF, END_CASE, END_FOR,        *)
(* END_WHILE or END_REPEAT is classified END_CONTROL, and no node of the   *)
(* flowchart is drawn for it.                                              *)
EndMarkersAreNotDrawn ==
    /\ pc = "build" =>
           \A k \in 1..Len(statements) :
               IsEndMarker(statements[k].content) => statements[k].type = "END_CONTROL"
    /\ pc = "done" =>
           \A j \in 1..Len(result) :
               result[j].k = "node" => ~IsEndMarker(result[j].label)

(* the IFs with parsed bodies, and the other statements, of a list and of  *)
(* all the bodies in it                                                    *)
RECURSIVE IfCount(_), PlainCount(_), IsIfForest(_)
IfCount(stmts) ==
    IF stmts = <<>> THEN 0
    ELSE (IF stmts[1].type = "IF" /\ stmts[1].parsed
          THEN 1 + IfCount(stmts[1].then_statements) + IfCount(stmts[1].else_statements)
          ELSE 0) + IfCount(Tail(stmts))
PlainCount(stmts) ==
    IF stmts = <<>> THEN 0
    ELSE (IF stmts[1].type = "IF" /\ stmts[1].parsed
          THEN PlainCount(stmts[1].then_statements) + PlainCount(stmts[1].else_statements)
          ELSE 1) + PlainCount(Tail(stmts))
IsIfForest(stmts) ==
    \A k \in 1..Len(stmts) :
        IF stmts[k].type = "IF" /\ stmts[k].parsed
        THEN IsIfForest(stmts[k].then_statements) /\ IsIfForest(stmts[k].else_statements)
        ELSE stmts[k].type = "ASSIGNMENT"

StatementNodes(flowchart) ==
    SelectSeq(flowchart, LAMBDA l : l.k = "node" /\ l.id[1] \in {"Action", "Then", "Else"})
EdgesOutOf(flowchart, id, elabel) ==
    SelectSeq(flowchart, LAMBDA l : l.k = "edge" /\ l.from = id /\ l.elabel = elabel)

(* C25: in the flowchart of a list of assignments and IFs, the IFs nested  *)
(* to any depth, every IF has a decision node with a True and a False      *)
(* edge and every statement of every body has a node.                      *)
EveryNestedIfIsDrawn ==
    (pc = "done" /\ statements # <<>> /\ IsIfForest(statements)) =>
        /\ Cardinality(DecisionNodes(result)) = IfCount(statements)
        /\ \A j \in DecisionNodes(result) :
               /\ EdgesOutOf(result, result[j].id, True) # <<>>
               /\ EdgesOutOf(result, result[j].id, False) # <<>>
        /\ Len(StatementNodes(result)) = PlainCount(statements)

(***************************************************************************)
(* THE HIERARCHICAL CONVERSION.  HierarchicalProcessor converts a          *)
(* component after the components it calls.  A component of the window is  *)
(* a POU: its name, the ST text of its body as the names written before a  *)
(* `(` in it (NoBody when the element has no body), and its actions, each  *)
(* a name and such a text.                                                 *)
(***************************************************************************)
MaxComponents == 2
MaxCalls == 3

NoBody == <<"None">>
HierNames == {"Alpha", "Bravo"}
HierBodies == {NoBody, <<>>, <<"Alpha">>, <<"Bravo">>}
HierActions ==
    {<<>>, <<[name |-> "Act", st |-> <<"Alpha">>]>>,
     <<[name |-> "Act", st |-> NoBody], [name |-> "Act", st |-> NoBody]>>}

HierComponents ==
    [name : HierNames, type : {"POU"}, st : HierBodies, actions : HierActions]

Projects == SeqsUpTo(HierComponents, MaxComponents) \ {<<>>}

(* _get_component_id *)
_get_component_id(component_info) == <<component_info.name, component_info.type>>

(* _extract_st_code: None for an element without a body.  For a body it   *)
(* calls st_processor.extract_code_from_element, a method that STProcessor *)
(* does not have (its method is extract_code): AttributeError.             *)
_extract_st_code(element) ==
    IF element.st = NoBody THEN [raised |-> "", st_code |-> NoBody]
    ELSE [raised |-> "AttributeError", st_code |-> NoBody]

(* _find_called_components: the components found, or the exception that    *)
(* leaves the function.  Without ST text no call is looked for; the        *)
(* actions of a POU are its called components.  An action is no POU.       *)
_find_called_components(component_info) ==
    LET extracted == _extract_st_code(component_info)
    IN  IF extracted.raised # ""
        THEN [raised |-> extracted.raised, found |-> <<>>]
        ELSE [raised |-> "",
              found |->
                  IF component_info.type = "POU"
                  THEN [k \in 1..Len(component_info.actions) |->
                            [name |-> component_info.name \o "." \o component_info.actions[k].name,
                             type |-> "Action",
                             st |-> component_info.actions[k].st,
                             actions |-> <<>>]]
                  ELSE <<>>]

(* line 37: a component that was entered before *)
AlreadyProcessedNever(component_id) == FALSE
AlreadyProcessed(component_id) == component_id \in processed_components

(* What a call of process_component_hierarchically does up to its loop:    *)
(* lines 33-45.  A call that returns at once leaves `value` to its caller. *)
Enter(component_info, stack_below) ==
    LET component_id == _get_component_id(component_info)
        called == _find_called_components(component_info)
    IN  IF AlreadyProcessed(component_id)
        THEN [stack |-> stack_below, entered |-> {}, value |-> "True"]
        ELSE IF called.raised # ""
        THEN [stack |-> stack_below, entered |-> {component_id}, value |-> "False"]
        ELSE [stack |-> Append(stack_below,
                               [component |-> component_info,
                                called_components |-> called.found, at |-> 1]),
              entered |-> {component_id}, value |-> "nothing"]

(* a new processor for the components of a project *)
OpenProject ==
    /\ object_ids = <<>>
    /\ \E project \in Projects : object_ids' = project
    /\ UNCHANGED <<processed_components, call_stack, returned, calls_made,
                   generated_components, conv, gui, gen, calls_running>>

(* the window calls process_component_hierarchically for a component *)
ProcessHierarchically ==
    /\ object_ids # <<>>
    /\ call_stack = <<>>
    /\ calls_made < MaxCalls
    /\ \E k \in 1..Len(object_ids) :
           LET e == Enter(object_ids[k], <<>>)
           IN  /\ call_stack' = e.stack
               /\ processed_components' = processed_components \cup e.entered
               /\ returned' = e.value
    /\ calls_made' = calls_made + 1
    /\ UNCHANGED <<object_ids, generated_components, conv, gui, gen, calls_running>>

(* one turn of the loop over the called components: lines 49-53 *)
VisitCalled ==
    /\ call_stack # <<>>
    /\ LET top == call_stack[Len(call_stack)]
       IN  /\ top.at <= Len(top.called_components)
           /\ LET called_component == top.called_components[top.at]
                  below == [call_stack EXCEPT ![Len(call_stack)].at = top.at + 1]
              IN  IF _get_component_id(called_component) \notin processed_components
                  THEN LET e == Enter(called_component, below)
                       IN  /\ call_stack' = e.stack
                           /\ processed_components' = processed_components \cup e.entered
                  ELSE /\ call_stack' = below
                       /\ UNCHANGED processed_components
    /\ UNCHANGED <<object_ids, returned, calls_made, generated_components, conv, gui, gen, calls_running>>

(* line 56: the component itself, after the loop.  It has no body and     *)
(* gets no flowchart; the files created are those of the interface of the  *)
(* element, if it declares variables.                                      *)
ProcessWithHierarchy ==
    /\ call_stack # <<>>
    /\ LET top == call_stack[Len(call_stack)]
       IN  /\ top.at > Len(top.called_components)
           /\ generated_components' =
                  Append(generated_components, _get_component_id(top.component))
           /\ call_stack' = SubSeq(call_stack, 1, Len(call_stack) - 1)
           /\ IF Len(call_stack) > 1 THEN UNCHANGED returned
              ELSE \E files_created \in {"True", "False"} : returned' = files_created
    /\ UNCHANGED <<object_ids, processed_components, calls_made, conv, gui, gen, calls_running>>

NextHier ==
    \/ OpenProject
    \/ ProcessHierarchically
    \/ VisitCalled
    \/ ProcessWithHierarchy

SpecHier ==
    /\ Init
    /\ [][NextHier]_vars
    /\ WF_vars(VisitCalled)
    /\ WF_vars(ProcessWithHierarchy)

(* the ids of the components whose calls are running *)
Running == {_get_component_id(call_stack[k].component) : k \in 1..Len(call_stack)}

(* C29: process_component_hierarchically returns, whatever the components  *)
(* call, each other and themselves included; no component is given to      *)
(* _process_component_with_hierarchy twice by one processor; the id of a   *)
(* component is in processed_components while its called components are    *)
(* visited, and no call is running twice for one component.                *)
EachComponentIsProcessedOnce ==
    /\ [](\A a, b \in 1..Len(generated_components) :
              a # b => generated_components[a] # generated_components[b])
    /\ [](Running \subseteq processed_components)
    /\ [](Cardinality(Running) = Len(call_stack))
    /\ (call_stack # <<>>) ~> (call_stack = <<>>)

(* Alpha calls Bravo and Bravo calls Alpha; both were asked for, and the   *)
(* calls have returned.                                                    *)
WitnessCyclicProject ==
    /\ Len(object_ids) = 2
    /\ object_ids[1].name = "Alpha" /\ object_ids[1].st = <<"Bravo">>
    /\ object_ids[2].name = "Bravo" /\ object_ids[2].st = <<"Alpha">>
    /\ processed_components = {<<"Alpha", "POU">>, <<"Bravo", "POU">>}
    /\ calls_made = MaxCalls
    /\ call_stack = <<>>

(***************************************************************************)
(* THE PARSE, STEP BY STEP.  process_code with the loop of                 *)
(* _parse_nested_structures and its recursive calls laid out as steps:     *)
(* pc = "parse" while calls of _parse_nested_structures are running.       *)
(***************************************************************************)
ParseFamilies == {IfFamily, CaseFamily, {"sel3", "sel2", "WHILE"}}
ParseTexts ==
    LET lists == UNION {[1..n -> fam] : n \in 0..MaxFrags, fam \in ParseFamilies}
    IN  {OnOneLine(fs) : fs \in lists} \cup {OnLines(fs) : fs \in lists}
ParseCodes ==
    {[type |-> "str", text |-> t] : t \in ParseTexts}
        \cup {[type |-> "NoneType", text |-> <<>>], [type |-> "bytes", text |-> <<"y:=1;">>]}

(* a call of _parse_nested_structures(st_code): lines 154-155 *)
NewCall(code) ==
    [st_code |-> code, remaining_code |-> code, statements |-> <<>>,
     next_control |-> NoMatch, pending |-> <<>>, collected |-> <<>>, finished |-> FALSE,
     before_pass |-> code, advanced |-> FALSE]

(* line 222: remaining_code[end_pos:] *)
RestFromStart(remaining_code, next_control) ==
    SubSeq(remaining_code, next_control.start_pos, Len(remaining_code))
RestAfter(remaining_code, next_control) ==
    SubSeq(remaining_code, next_control.end_pos + 1, Len(remaining_code))

Innermost == calls_running[Len(calls_running)]
InnermostBecomes(call) == calls_running' = [calls_running EXCEPT ![Len(calls_running)] = call]

(* process_code, lines 78-98, up to the call of _parse_st_statements *)
BeginProcessCode ==
    /\ pc = "idle"
    /\ \E code \in ParseCodes, name \in PouNames :
           /\ st_code' = code
           /\ pou_name' = name
           /\ IF IsEmptyCode(code)
              THEN /\ result' = _create_empty_flowchart(name)
                   /\ pc' = "done"
                   /\ UNCHANGED calls_running
              ELSE IF code.type # "str"
              THEN /\ result' = _create_error_flowchart(name, TypeErrorMessage)
                   /\ pc' = "done"
                   /\ UNCHANGED calls_running
              ELSE IF Strip(_clean_st_code(code.text)) = <<>>
              THEN /\ result' = _create_empty_flowchart(name)
                   /\ pc' = "done"
                   /\ UNCHANGED calls_running
              ELSE /\ calls_running' = <<NewCall(_clean_st_code(code.text))>>
                   /\ pc' = "parse"
                   /\ UNCHANGED result
    /\ UNCHANGED <<namespace, statements, i, node_id, previous_node, lines, memo, gui, gen, hier>>

UnchangedByParse ==
    UNCHANGED <<pc, namespace, st_code, pou_name, statements, i, node_id, previous_node,
                lines, result, memo, gui, gen, hier>>

(* lines 157-171: the head of a pass of the loop *)
FindNextControl ==
    /\ pc = "parse"
    /\ ~Innermost.finished /\ ~Innermost.next_control.found
    /\ Strip(Innermost.remaining_code) # <<>>
    /\ LET call == Innermost
           next_control == _find_next_control_structure(call.remaining_code)
           before_control == Strip(BeforeMatch(call.remaining_code, next_control.start_pos))
           if_match == IfGroups(next_control.content)
       IN  IF ~next_control.found
           THEN InnermostBecomes(
                    [call EXCEPT !.statements = @ \o _parse_simple_statements(call.remaining_code),
                                 !.finished = TRUE])
           ELSE InnermostBecomes(
                    [call EXCEPT !.statements =
                                     IF before_control # <<>>
                                     THEN @ \o _parse_simple_statements(before_control) ELSE @,
                                 !.next_control = next_control,
                                 !.before_pass = call.remaining_code,
                                 !.pending =
                                     IF next_control.type = "IF" /\ if_match.found
                                     THEN <<Strip(if_match.g2), Strip(if_match.g3)>>
                                     ELSE <<>>])
    /\ UnchangedByParse

(* lines 184-185: a recursive call for the THEN or the ELSE block *)
ParseBlock ==
    /\ pc = "parse"
    /\ Innermost.next_control.found /\ Innermost.pending # <<>>
    /\ calls_running' =
           Append([calls_running EXCEPT ![Len(calls_running)].pending = Tail(@)],
                  NewCall(Head(Innermost.pending)))
    /\ UnchangedByParse

(* lines 187-222: the statement of the control structure, and on to the    *)
(* code after it                                                           *)
AfterControl ==
    /\ pc = "parse"
    /\ Innermost.next_control.found /\ Innermost.pending = <<>>
    /\ LET call == Innermost
           next_control == call.next_control
           if_match == IfGroups(next_control.content)
           case_match == CaseGroups(next_control.content)
           this ==
               IF next_control.type = "IF"
               THEN IF if_match.found
                    THEN <<IfStmt(Strip(if_match.g1), call.collected[1], call.collected[2])>>
                    ELSE <<>>
               ELSE IF case_match.found
                    THEN <<Stmt("CASE", Strip(case_match.g1))>>
                             \o _parse_case_branches(Strip(case_match.g2))
                             \o <<Stmt("END_CONTROL", <<"END_CASE">>)>>
                    ELSE <<>>
       IN  InnermostBecomes(
               [call EXCEPT !.statements = @ \o this,
                            !.remaining_code = RestAfter(call.remaining_code, next_control),
                            !.next_control = NoMatch,
                            !.collected = <<>>,
                            !.advanced = TRUE])
    /\ UnchangedByParse

LoopEnded(call) ==
    /\ ~call.next_control.found
    /\ call.finished \/ Strip(call.remaining_code) = <<>>

(* line 224 in a recursive call: the statements go to the calling pass *)
ReturnBlock ==
    /\ pc = "parse"
    /\ Len(calls_running) > 1
    /\ LoopEnded(Innermost)
    /\ calls_running' =
           [SubSeq(calls_running, 1, Len(calls_running) - 1)
                EXCEPT ![Len(calls_running) - 1].collected = Append(@, Innermost.statements)]
    /\ UnchangedByParse

(* line 224 in the outermost call, and lines 100-107: the statements go    *)
(* to the builder                                                          *)
ReturnStatements ==
    /\ pc = "parse"
    /\ Len(calls_running) = 1
    /\ LoopEnded(Innermost)
    /\ calls_running' = <<>>
    /\ EnterBuilder(Innermost.statements, pou_name, st_code.text)
    /\ UNCHANGED <<namespace, st_code, pou_name, memo, gui, gen, hier>>

ParseStep ==
    \/ FindNextControl
    \/ ParseBlock
    \/ AfterControl
    \/ ReturnBlock
    \/ ReturnStatements

NextParse ==
    \/ BeginProcessCode
    \/ ParseStep
    \/ BuildStep
    \/ Return

(* Some disjunct of ParseStep can be taken: its guards, lines 157-224.     *)
ParseStepEnabled ==
    /\ pc = "parse"
    /\ calls_running # <<>>
    /\ \/ ~Innermost.finished /\ ~Innermost.next_control.found
             /\ Strip(Innermost.remaining_code) # <<>>
       \/ Innermost.next_control.found
       \/ LoopEnded(Innermost)

(* The interpreter runs a call to its end: a pass of the loop that can be  *)
(* taken is taken, and so is a step of the builder.  The fairness of       *)
(* ParseStep is weak fairness with the enabling condition written out.     *)
SpecParse ==
    /\ Init
    /\ [][NextParse]_vars
    /\ ([]<>(~ParseStepEnabled) \/ []<><<ParseStep>>_vars)
    /\ WF_vars(BuildStep)

(* C30: _parse_nested_structures returns for every text: each pass of its  *)
(* loop that handles a control structure leaves as remaining text a proper *)
(* end of the text it started with, each recursive call for a THEN- or     *)
(* ELSE-block gets a text shorter than the text of its caller, a pass can  *)
(* always be taken while the parse runs, and process_code ends with a      *)
(* flowchart or an error flowchart.                                        *)
ParseTerminates ==
    /\ [](\A k \in 1..Len(calls_running) :
              (calls_running[k].advanced /\ ~calls_running[k].next_control.found) =>
                  LET rest == calls_running[k].remaining_code
                      before == calls_running[k].before_pass
                  IN  /\ Len(rest) < Len(before)
                      /\ rest = SubSeq(before, Len(before) - Len(rest) + 1, Len(before)))
    /\ [](\A k \in 2..Len(calls_running) :
              Len(calls_running[k].st_code) < Len(calls_running[k - 1].remaining_code))
    /\ [](pc = "parse" => ParseStepEnabled)
    /\ [](pc = "done" => IsFlowchart(result))
    /\ (pc = "parse") ~> (pc = "done")

(* a text with an IF structure and a statement after it has been parsed:   *)
(* the loop has made two passes and a recursive call for the THEN block    *)
WitnessParsedTwoPasses ==
    /\ pc = "done"
    /\ Len(statements) >= 2
    /\ statements[1].type = "IF" /\ statements[1].parsed
    /\ statements[1].then_statements # <<>>
    /\ IsFlowchart(result)

====
